---------------------------- MODULE Spec2Model ----------------------------
(***************************************************************************)
(* Model of igdl's batch download queue (src/igdl/aria2.py,                *)
(* Aria2Downloader) together with the part of the file system it touches:  *)
(* the destination files of output_dir and the aria2c input file           *)
(* ".<username>.aria2.txt", which is the recovery file of the batch.       *)
(*                                                                         *)
(* One Aria2Downloader instance serves one owner and one output_dir        *)
(* (src/igdl/downloader.py:231 and :526), so the model has one recovery    *)
(* file.  Text is modelled as a sequence of one-character strings, so that *)
(* serialising and parsing the input file are real computations.           *)
(***************************************************************************)
EXTENDS Integers, Sequences, FiniteSets, TLC

\* ------------------------------------------------------------------------
\* Bounds
\* ------------------------------------------------------------------------

\* Largest number of items the model lets the queue hold.
MaxQueue == 3

\* The limiter is checked on a reduced scale, in ticks of the clock: the
\* window is WINDOW_SECONDS ticks long (660 s in the source) and holds
\* MAX_REQUESTS requests (75), the safety margin of wait_if_needed is
\* SAFETY_MARGIN ticks (6.0 s), and the random delay is at most MAX_DELAY
\* ticks (5.0 s). A delay of 0 is one shorter than a tick: MAX_REQUESTS + 1
\* delays of the source fit in its window many times over.
WINDOW_SECONDS == 3

MAX_REQUESTS == 3

SAFETY_MARGIN == 1

MAX_DELAY == 1

\* The deque is followed up to this length.
MaxStamps == 4

\* The record_request calls followed after a get_current or a
\* rotate_on_error of the rotator.
MaxCalls == 41

\* ProxyRotator.ROTATE_EVERY_REQUESTS
ROTATE_EVERY_REQUESTS == 20

\* InstagramClient._request(..., max_retries=3)
max_retries == 3

\* InstagramClient.download_media(..., max_retries=3)
media_max_retries == 3

\* BehaviorSimulator: a rest break every 50 to 80 posts
BREAK_POSTS_MIN == 50

BREAK_POSTS_MAX == 80

\* The _deduplicate_slug calls followed on one `used` set.
MaxSlugs == 5

\* ------------------------------------------------------------------------
\* Text helpers (Python str operations used by aria2.py)
\* ------------------------------------------------------------------------

NL == "\n"

Whitespace == {" ", NL}

Http == <<"h", "t", "t", "p">>

OutEq == <<"o", "u", "t", "=">>

\* f"  out={filename}"
OutLine(filename) == <<" ", " ">> \o OutEq \o filename

\* str.startswith
StartsWith(s, p) ==
    /\ Len(s) >= Len(p)
    /\ SubSeq(s, 1, Len(p)) = p

\* Position of the first occurrence of p in s at or after position k, 0 if none.
RECURSIVE FindFrom(_, _, _)
FindFrom(s, p, k) ==
    IF k + Len(p) - 1 > Len(s) THEN 0
    ELSE IF SubSeq(s, k, k + Len(p) - 1) = p THEN k
    ELSE FindFrom(s, p, k + 1)

\* `p in s`
Contains(s, p) == FindFrom(s, p, 1) # 0

\* str.replace(p, "")
RECURSIVE RemoveAll(_, _)
RemoveAll(s, p) ==
    LET k == FindFrom(s, p, 1)
    IN  IF k = 0 THEN s
        ELSE SubSeq(s, 1, k - 1) \o RemoveAll(SubSeq(s, k + Len(p), Len(s)), p)

RECURSIVE LStrip(_)
LStrip(s) ==
    IF s # <<>> /\ Head(s) \in Whitespace THEN LStrip(Tail(s)) ELSE s

RECURSIVE RStrip(_)
RStrip(s) ==
    IF s # <<>> /\ s[Len(s)] \in Whitespace
    THEN RStrip(SubSeq(s, 1, Len(s) - 1))
    ELSE s

\* str.strip
Strip(s) == RStrip(LStrip(s))

SplitNowhere(s, c) == s

\* s.split(c)[0]
SplitFirst(s, c) ==
    LET k == FindFrom(s, <<c>>, 1)
    IN  IF k = 0 THEN s ELSE SubSeq(s, 1, k - 1)

\* "\n".join(lines)
RECURSIVE JoinLines(_)
JoinLines(lines) ==
    IF lines = <<>> THEN <<>>
    ELSE IF Len(lines) = 1 THEN lines[1]
    ELSE lines[1] \o <<NL>> \o JoinLines(Tail(lines))

\* str.splitlines
RECURSIVE SplitLines(_)
SplitLines(text) ==
    IF text = <<>> THEN <<>>
    ELSE LET k == FindFrom(text, <<NL>>, 1)
         IN  IF k = 0 THEN <<text>>
             ELSE <<SubSeq(text, 1, k - 1)>>
                      \o SplitLines(SubSeq(text, k + 1, Len(text)))

\* ------------------------------------------------------------------------
\* Items
\* ------------------------------------------------------------------------

DownloadItem(url, filename, shortcode) ==
    [url |-> url, filename |-> filename, shortcode |-> shortcode]

\* The media the orchestration can enqueue: filenames as built by
\* Downloader._get_filename for the username "u": one single-media post "a",
\* a carousel post "b" with two media, one single-media post "c".
ItemPool ==
    { DownloadItem(Http \o <<"a">>, <<"u", "_", "a", ".", "j">>, <<"a">>),
      DownloadItem(Http \o <<"b">>, <<"u", "_", "b", "_", "1", ".", "j">>, <<"b">>),
      DownloadItem(Http \o <<"c">>, <<"u", "_", "b", "_", "2", ".", "j">>, <<"b">>),
      DownloadItem(Http \o <<"d">>, <<"u", "_", "c", ".", "j">>, <<"c">>) }

\* ------------------------------------------------------------------------
\* State
\* ------------------------------------------------------------------------

VARIABLES
    items,        \* Aria2Downloader._items
    input_file,   \* Aria2Downloader._input_file: "None" or "path"
    recovery,     \* content of output_dir/.<username>.aria2.txt, or Absent
    disk,         \* names of the files that exist in output_dir
    pc,           \* position of the running call: idle, write, run, verify
    op,           \* the call in progress: none, flush, resume
    counts,       \* (successful, failed) returned by _run_aria2c
    ret,          \* what the call that has just returned gave back
    owed,         \* history: destinations that failed verification, see TrackOwed
    has_proxy,    \* RateLimiter._has_proxy
    timestamps,   \* RateLimiter._timestamps, each entry kept as its age
    rl_lock,      \* RateLimiter._lock: "free" or the thread that holds it
    rl_pc,        \* per thread: ready, wait_lock, window_sleep, delay_sleep, raised
    recs,         \* per thread: record_request calls since its wait_if_needed
    sleep_left,   \* what is left of the time.sleep in progress
    stats,        \* requests_in_window of the get_stats that has just returned
    wwait,        \* history: the window wait of the latest wait_if_needed
    rapid,        \* history: wait_if_needed calls returned at this instant
    proxies,      \* ProxyRotator._proxies
    current_index, \* ProxyRotator._current_index
    request_count, \* ProxyRotator._request_count
    pr_lock,      \* ProxyRotator._lock: "free" or the thread that holds it
    pr_pc,        \* per thread: ready, record_lock, record_add, error_lock, error_rotate
    pr_local,     \* per thread: the counter read by `_request_count += 1`
    hist,         \* history of the rotator, see Since
    cl_pc,        \* _request: idle, attempt, rate_wait, backoff, done
    attempt,      \* the loop variable of _request
    call,         \* what the _request in progress has done so far
    result,       \* what the _request that has ended returned or raised
    session,      \* cookies_file, whether the file can be loaded, _session.cookies
    backend,      \* the pages the server holds, in cursor order
    limit,        \* iter_posts: the limit argument, NoLimit for None
    it_pc,        \* iter_posts: idle, fetch, page_wait, posts, ended
    cursor,       \* iter_posts: cursor
    it_count,     \* iter_posts: count
    page_attempt, \* iter_posts: the loop variable of the retry loop
    page,         \* iter_posts: page
    pos,          \* iter_posts: the position of `for post in page.posts`
    log,          \* what iter_posts has done so far, in order
    it_result,    \* how the iteration ended
    bt_pc,        \* _download_profile_aria2: idle, posts, done
    posts_in_batch, \* len(posts_in_batch)
    queued,       \* len(aria2)
    processed,    \* the posts iter_posts has handed over
    flushed,      \* the sizes of the queue at each aria2.flush
    behavior,     \* BehaviorSimulator: its fields and its last call
    slugs,        \* _deduplicate_slug: the `used` set and the calls made
    media         \* download_media: its position, the file, the attempts

queueVars == <<items, input_file, recovery, disk, pc, op, counts, ret, owed>>

rateVars ==
    <<has_proxy, timestamps, rl_lock, rl_pc, recs, sleep_left, stats, wwait, rapid>>

proxyVars ==
    <<proxies, current_index, request_count, pr_lock, pr_pc, pr_local, hist>>

clientVars == <<cl_pc, attempt, call, result, session>>

pageVars ==
    <<backend, limit, it_pc, cursor, it_count, page_attempt, page, pos, log,
      it_result>>

batchVars == <<bt_pc, posts_in_batch, queued, processed, flushed>>

sideVars == <<behavior, slugs, media>>

\* Everything but the download queue.
others == <<rateVars, proxyVars, clientVars, pageVars, batchVars, sideVars>>

vars ==
    <<items, input_file, recovery, disk, pc, op, counts, ret, owed,
      has_proxy, timestamps, rl_lock, rl_pc, recs, sleep_left, stats, wwait, rapid,
      proxies, current_index, request_count, pr_lock, pr_pc, pr_local, hist,
      cl_pc, attempt, call, result, session,
      backend, limit, it_pc, cursor, it_count, page_attempt, page, pos, log,
      it_result,
      bt_pc, posts_in_batch, queued, processed, flushed,
      behavior, slugs, media>>

\* The file does not exist: a value no text equals (the elements of a text
\* are single characters).
Absent == <<"absent">>

NoCounts == [successful |-> 0, failed |-> 0]

\* No call has just returned.
NoRet ==
    [op |-> "none", keys |-> {}, successful |-> 0, failed |-> 0,
     batch |-> <<>>, rc |-> "none"]

\* (output_dir / filename).exists(); output_dir / "" is output_dir itself.
Exists(files, filename) == filename = <<>> \/ filename \in files

Indices(s) == 1 .. Len(s)

\* ------------------------------------------------------------------------
\* Aria2Downloader: pure parts
\* ------------------------------------------------------------------------

\* The `lines` list built by _write_input_file: url, then "  out=filename".
RECURSIVE InputLines(_)
InputLines(its) ==
    IF its = <<>> THEN <<>>
    ELSE <<its[1].url, OutLine(its[1].filename)>> \o InputLines(Tail(its))

\* The text _write_input_file writes: "\n".join(lines) + "\n".
InputText(its) == JoinLines(InputLines(its)) \o <<NL>>

\* The loop of resume() over lines[i ..], appending to acc.
RECURSIVE ParseFrom(_, _, _)
ParseFrom(lines, i, acc) ==
    IF i > Len(lines) THEN acc
    ELSE LET line == Strip(lines[i])
         IN  IF StartsWith(line, Http)
             THEN LET hasOut   == i + 1 <= Len(lines) /\ Contains(lines[i + 1], OutEq)
                      filename == IF hasOut
                                  THEN RemoveAll(Strip(lines[i + 1]), OutEq)
                                  ELSE <<>>
                      shortcode == SplitFirst(SplitFirst(filename, "."), "_")
                  IN  ParseFrom(lines,
                                IF hasOut THEN i + 2 ELSE i + 1,
                                Append(acc, DownloadItem(line, filename, shortcode)))
             ELSE ParseFrom(lines, i + 1, acc)

\* The items resume() reconstructs from the content of the input file.
ParseInputFile(content) == ParseFrom(SplitLines(content), 1, <<>>)

\* Number of items whose destination file exists.
ExistingCount(its, files) ==
    Cardinality({i \in Indices(its) : Exists(files, its[i].filename)})

\* What aria2c did: exited with status 0, exited with another status, or
\* could not be started (FileNotFoundError).
ExitStatus == {"zero", "nonzero", "notfound"}

\* The (successful, failed) pair _run_aria2c returns, files being the
\* destination files that exist once subprocess.run is over.
RunCounts(rc, its, files) ==
    IF rc = "zero" THEN [successful |-> Len(its), failed |-> 0]
    ELSE IF rc = "nonzero"
    THEN [successful |-> ExistingCount(its, files),
          failed |-> Len(its) - ExistingCount(its, files)]
    ELSE [successful |-> 0, failed |-> Len(its)]

\* successful_shortcodes of flush().
SuccessfulShortcodes(its, files) ==
    {its[i].shortcode : i \in {j \in Indices(its) : Exists(files, its[j].filename)}}

\* _cleanup_input_file: the file and the field after the call.
CleanupUnlinks(inf, rec) == inf # "None" /\ rec # Absent

RecoveryAfterCleanup(inf, rec) == IF CleanupUnlinks(inf, rec) THEN Absent ELSE rec

InputFileAfterCleanup(inf, rec) == IF CleanupUnlinks(inf, rec) THEN "None" ELSE inf

\* The names aria2c can create: the out= names of the batch.
Destinations(its) == {its[i].filename : i \in Indices(its)} \ {<<>>}

\* ------------------------------------------------------------------------
\* The other components, freshly constructed
\* ------------------------------------------------------------------------

\* The threads of a host that shares one RateLimiter.
Threads == {"t1", "t2"}

\* get_stats has not just returned.
NoStats == -1

\* No wait_if_needed has just gone through the window check.
NoWait == [need |-> -1, slept |-> 0]

\* RateLimiter.__init__: an empty deque, a free lock.
RateIdle ==
    /\ timestamps = <<>>
    /\ rl_lock = "free"
    /\ rl_pc = [t \in Threads |-> "ready"]
    /\ recs = [t \in Threads |-> max_retries]
    /\ sleep_left = 0
    /\ stats = NoStats
    /\ wwait = NoWait
    /\ rapid = 0

\* ProxyRotator.__init__, the list of proxies apart.
ProxyFresh ==
    /\ current_index = 0
    /\ request_count = 0
    /\ pr_lock = "free"
    /\ pr_pc = [t \in Threads |-> "ready"]
    /\ pr_local = [t \in Threads |-> 0]
    /\ hist = [last |-> "init", from |-> 0, was |-> 0, seen |-> "unseen",
               n |-> 0, rots |-> 0]

\* ProxyRotator(): no proxy configured.
ProxyIdle == proxies = <<>> /\ ProxyFresh

\* A _request not yet begun: the rate limiter's wait_if_needed calls, the
\* answers met, the record_request calls on the limiter, the
\* rotate_on_error calls, the rotations of the rotator, the sleeps before a
\* retry, the refresh_session calls, the rotator as the call found it, and
\* the text of the ApiError raised.
NoCall ==
    [waits |-> 0, answers |-> <<>>, recorded |-> 0, forced |-> 0,
     rotations |-> 0, sleeps |-> <<>>, refreshes |-> 0, index |-> 0, count |-> 0,
     message |-> <<>>]

NoResult == [kind |-> "none", value |-> 0]

\* No _request has been made.
NoRequest ==
    /\ cl_pc = "idle"
    /\ attempt = 0
    /\ call = NoCall
    /\ result = NoResult

\* _create_session: the cookies of a new session.
CreateSession == {"ig_did", "ig_nrcb"}

\* The cookies of the cookie file.
AuthCookies == {"sessionid"}

\* _load_cookies: the cookies of the file are copied into the session; when
\* the file cannot be loaded the exception is caught and a warning printed.
LoadCookies(cookies, loadable) ==
    IF loadable THEN cookies \cup AuthCookies ELSE cookies

\* self._session = self._create_session(), then _load_cookies if a cookie
\* file is configured: the end of __init__ and refresh_session.
NewSession(cookies_file, loadable) ==
    IF cookies_file THEN LoadCookies(CreateSession, loadable) ELSE CreateSession

\* The client as __init__ leaves it.
Constructed(cookies_file, loadable) ==
    [cookies_file |-> cookies_file, loadable |-> loadable,
     cookies |-> NewSession(cookies_file, loadable)]

\* A client without cookie file on which no _request has been made.
ClientIdle == NoRequest /\ session = Constructed(FALSE, FALSE)

\* A page of posts: PostsPage.
PostsPage(posts, has_next_page, end_cursor) ==
    [posts |-> posts, has_next_page |-> has_next_page, end_cursor |-> end_cursor]

NoPage == PostsPage(<<>>, FALSE, "None")

\* limit: int | None = None
NoLimit == -1

NoEnd == [how |-> "none", kind |-> "none", status |-> 0]

\* iter_posts has not been called; the server holds one page without posts.
PagesFresh ==
    /\ limit = NoLimit
    /\ it_pc = "idle"
    /\ cursor = "None"
    /\ it_count = 0
    /\ page_attempt = 0
    /\ page = NoPage
    /\ pos = 0
    /\ log = <<>>
    /\ it_result = NoEnd

PagesIdle == backend = <<NoPage>> /\ PagesFresh

\* No profile is being downloaded.
BatchIdle ==
    /\ bt_pc = "idle"
    /\ posts_in_batch = 0
    /\ queued = 0
    /\ processed = 0
    /\ flushed = <<>>

\* No post has been processed: the simulator as its constructor leaves it.
BehaviorSimulator(has, next_break_at) ==
    [has_proxy |-> has, posts_since_break |-> 0, next_break_at |-> next_break_at,
     called |-> FALSE, slept |-> FALSE, before |-> 0, at |-> next_break_at]

\* No slug has been handed out: used_slugs = set().
NoSlugs == [used |-> {}, returned |-> <<>>, asked |-> <<>>, before |-> {}]

\* No media file is being downloaded; `file` is what is at the destination.
NoDownload(file) ==
    [pc |-> "idle", attempt |-> 0, file |-> file, attempts |-> 0,
     sleeps |-> <<>>, met |-> <<>>, result |-> "none"]

SideIdle ==
    /\ behavior = BehaviorSimulator(FALSE, BREAK_POSTS_MIN)
    /\ slugs = NoSlugs
    /\ media = NoDownload("absent")

OthersIdle ==
    /\ has_proxy = FALSE /\ RateIdle /\ ProxyIdle /\ ClientIdle
    /\ PagesIdle /\ BatchIdle /\ SideIdle

\* ------------------------------------------------------------------------
\* Initial state: a fresh instance, an empty output_dir
\* ------------------------------------------------------------------------

QueueIdle ==
    /\ items = <<>>
    /\ input_file = "None"
    /\ recovery = Absent
    /\ disk = {}
    /\ pc = "idle"
    /\ op = "none"
    /\ counts = NoCounts
    /\ ret = NoRet
    /\ owed = {}

Init == QueueIdle /\ OthersIdle

\* ------------------------------------------------------------------------
\* Operations
\* ------------------------------------------------------------------------

\* add(url, filename, shortcode)
add(item) ==
    /\ pc = "idle"
    /\ Len(items) < MaxQueue
    /\ items' = Append(items, item)
    /\ ret' = NoRet
    /\ UNCHANGED <<input_file, recovery, disk, pc, op, counts>>

\* flush(username) with an empty queue: return set(), 0
flush_empty ==
    /\ pc = "idle"
    /\ items = <<>>
    /\ ret' = [NoRet EXCEPT !.op = "flush"]
    /\ UNCHANGED <<items, input_file, recovery, disk, pc, op, counts>>

\* Faulty variant of flush_open: the transfer is started on the input file
\* path before the pending list has been written to it.
flush_open_unwritten ==
    /\ pc = "idle"
    /\ items # <<>>
    /\ input_file' = "path"
    /\ pc' = "run"
    /\ op' = "flush"
    /\ ret' = NoRet
    /\ UNCHANGED <<items, recovery, disk, counts>>

\* Faulty variant of flush_open: the empty-queue test is missing.
flush_open_unguarded ==
    /\ pc = "idle"
    /\ recovery' = <<>>
    /\ pc' = "write"
    /\ op' = "flush"
    /\ ret' = NoRet
    /\ UNCHANGED <<items, input_file, disk, counts>>

\* flush(username) with a non-empty queue, up to the moment write_text has
\* opened the input file for writing, which creates or truncates it.
flush_open ==
    /\ pc = "idle"
    /\ items # <<>>
    /\ recovery' = <<>>
    /\ pc' = "write"
    /\ op' = "flush"
    /\ ret' = NoRet
    /\ UNCHANGED <<items, input_file, disk, counts>>

\* The next line of the text that is still to be written.
NextChunk(text, written) ==
    LET rest == SubSeq(text, Len(written) + 1, Len(text))
    IN  SubSeq(rest, 1, FindFrom(rest, <<NL>>, 1))

\* write_text writes the text, here one line at a time; when the last line is
\* written the file is closed and _input_file is set.
flush_write ==
    /\ pc = "write"
    /\ LET text == InputText(items)
           now  == recovery \o NextChunk(text, recovery)
       IN  /\ recovery' = now
           /\ IF now = text
              THEN pc' = "run" /\ input_file' = "path"
              ELSE pc' = "write" /\ input_file' = input_file
    /\ UNCHANGED <<items, disk, op, counts, ret>>

\* _run_aria2c(input_file): aria2c ends with status rc after creating the
\* files of `created`; nothing is created when it cannot be started.
run_aria2c(rc, created) ==
    /\ pc = "run"
    /\ created \subseteq Destinations(items)
    /\ rc = "notfound" => created = {}
    /\ disk' = disk \cup created
    /\ counts' = RunCounts(rc, items, disk \cup created)
    /\ pc' = "verify"
    /\ ret' = [NoRet EXCEPT !.rc = rc]
    /\ UNCHANGED <<items, input_file, recovery, op>>

\* Faulty variant of flush_finish: the queue is cleared only when nothing
\* failed.
flush_finish_keep ==
    /\ pc = "verify"
    /\ op = "flush"
    /\ recovery' = IF counts.failed = 0
                   THEN RecoveryAfterCleanup(input_file, recovery)
                   ELSE recovery
    /\ input_file' = IF counts.failed = 0
                     THEN InputFileAfterCleanup(input_file, recovery)
                     ELSE input_file
    /\ items' = IF counts.failed = 0 THEN <<>> ELSE items
    /\ ret' = [op |-> "flush",
               keys |-> SuccessfulShortcodes(items, disk),
               successful |-> counts.successful,
               failed |-> counts.failed,
               batch |-> items,
               rc |-> ret.rc]
    /\ pc' = "idle"
    /\ op' = "none"
    /\ counts' = NoCounts
    /\ UNCHANGED disk

\* flush(username) after _run_aria2c returned: the on-disk check, the cleanup
\* when failed == 0, clear(), return.
flush_finish ==
    /\ pc = "verify"
    /\ op = "flush"
    /\ recovery' = IF counts.failed = 0
                   THEN RecoveryAfterCleanup(input_file, recovery)
                   ELSE recovery
    /\ input_file' = IF counts.failed = 0
                     THEN InputFileAfterCleanup(input_file, recovery)
                     ELSE input_file
    /\ items' = <<>>
    /\ ret' = [op |-> "flush",
               keys |-> SuccessfulShortcodes(items, disk),
               successful |-> counts.successful,
               failed |-> counts.failed,
               batch |-> items,
               rc |-> ret.rc]
    /\ pc' = "idle"
    /\ op' = "none"
    /\ counts' = NoCounts
    /\ UNCHANGED disk

\* resume(username) when there is no input file: return 0, 0
resume_absent ==
    /\ pc = "idle"
    /\ recovery = Absent
    /\ ret' = [NoRet EXCEPT !.op = "resume"]
    /\ UNCHANGED <<items, input_file, recovery, disk, pc, op, counts>>

\* resume(username) when the input file exists, up to the call of _run_aria2c.
resume_parse ==
    /\ pc = "idle"
    /\ recovery # Absent
    /\ items' = ParseInputFile(recovery)
    /\ input_file' = "path"
    /\ pc' = "run"
    /\ op' = "resume"
    /\ ret' = NoRet
    /\ UNCHANGED <<recovery, disk, counts>>

\* resume(username) after _run_aria2c returned.
resume_finish ==
    /\ pc = "verify"
    /\ op = "resume"
    /\ recovery' = IF counts.failed = 0
                   THEN RecoveryAfterCleanup(input_file, recovery)
                   ELSE recovery
    /\ input_file' = IF counts.failed = 0
                     THEN InputFileAfterCleanup(input_file, recovery)
                     ELSE input_file
    /\ items' = <<>>
    /\ ret' = [op |-> "resume",
               keys |-> {},
               successful |-> counts.successful,
               failed |-> Len(items) - counts.successful,
               batch |-> items,
               rc |-> ret.rc]
    /\ pc' = "idle"
    /\ op' = "none"
    /\ counts' = NoCounts
    /\ UNCHANGED disk

\* The process is interrupted (operator abort, crash) and a later run
\* constructs a new Aria2Downloader: memory is lost, the disk is kept.
interrupt ==
    /\ pc # "idle" \/ items # <<>> \/ input_file # "None"
    /\ items' = <<>>
    /\ input_file' = "None"
    /\ pc' = "idle"
    /\ op' = "none"
    /\ counts' = NoCounts
    /\ ret' = NoRet
    /\ UNCHANGED <<recovery, disk>>

\* The media not yet in the queue: the orchestration enqueues each media of
\* a batch once.
NewItems == {item \in ItemPool : \A i \in Indices(items) : items[i] # item}

\* The destination names of the batch a flush has just verified and found
\* missing.
FailedVerification(r, files) ==
    IF r.op = "flush"
    THEN {r.batch[i].filename : i \in {j \in Indices(r.batch) :
                                        ~Exists(files, r.batch[j].filename)}}
    ELSE {}

\* History: `owed` gathers the destinations that failed verification in some
\* flush and are still not on disk.
TrackOwed == owed' = (owed \cup FailedVerification(ret', disk')) \ disk'

Next ==
    \/ (\E item \in NewItems : add(item)) /\ UNCHANGED <<owed, others>>
    \/ flush_empty /\ UNCHANGED <<owed, others>>
    \/ flush_open /\ UNCHANGED <<owed, others>>
    \/ flush_write /\ UNCHANGED <<owed, others>>
    \/ (\E rc \in ExitStatus : \E created \in SUBSET Destinations(items) :
           run_aria2c(rc, created)) /\ UNCHANGED <<owed, others>>
    \/ flush_finish /\ UNCHANGED <<owed, others>>
    \/ resume_absent /\ UNCHANGED <<owed, others>>
    \/ resume_parse /\ UNCHANGED <<owed, others>>
    \/ resume_finish /\ UNCHANGED <<owed, others>>
    \/ interrupt /\ UNCHANGED <<owed, others>>

Spec == Init /\ [][Next]_vars

\* The same program with the history of failed verifications recorded, for
\* one instance that only enqueues and flushes.
NextRetry ==
    \/ (\E item \in NewItems : add(item)) /\ TrackOwed /\ UNCHANGED others
    \/ flush_empty /\ TrackOwed /\ UNCHANGED others
    \/ flush_open /\ TrackOwed /\ UNCHANGED others
    \/ flush_write /\ TrackOwed /\ UNCHANGED others
    \/ (\E rc \in ExitStatus : \E created \in SUBSET Destinations(items) :
           run_aria2c(rc, created)) /\ TrackOwed /\ UNCHANGED others
    \/ flush_finish /\ TrackOwed /\ UNCHANGED others

SpecRetry == Init /\ [][NextRetry]_vars

TypeOK ==
    /\ pc \in {"idle", "write", "run", "verify"}
    /\ op \in {"none", "flush", "resume"}
    /\ input_file \in {"None", "path"}
    /\ disk \subseteq {it.filename : it \in ItemPool}

\* ------------------------------------------------------------------------
\* RateLimiter
\* ------------------------------------------------------------------------

\* An entry of the deque is kept as its age, time.monotonic() minus the
\* timestamp, so that the clock needs no origin; an age above the window is
\* not followed further.
Aged(ts) ==
    [i \in DOMAIN ts |-> IF ts[i] > WINDOW_SECONDS THEN ts[i] ELSE ts[i] + 1]

\* _clean_old_timestamps: popleft while _timestamps[0] < current_time -
\* WINDOW_SECONDS, that is while the oldest age exceeds the window.
RECURSIVE clean_old_timestamps(_)
clean_old_timestamps(ts) ==
    IF ts # <<>> /\ Head(ts) > WINDOW_SECONDS
    THEN clean_old_timestamps(Tail(ts))
    ELSE ts

\* requests_in_window >= MAX_REQUESTS, on the cleaned deque.
Saturated(ts) == Len(ts) >= MAX_REQUESTS

\* wait_time computed without the length of the window.
WaitTimeNoWindow(ts) == SAFETY_MARGIN - Head(ts)

WaitTimeNoMargin(ts) == WINDOW_SECONDS - Head(ts)

\* wait_time = oldest + WINDOW_SECONDS - current_time + 6.0
WaitTime(ts) == WINDOW_SECONDS - Head(ts) + SAFETY_MARGIN

\* _random_delay: uniform(0.1, 0.3) behind a proxy, the clamped exponential
\* otherwise.
RandomDelay(proxy) == IF proxy THEN {0} ELSE 0 .. MAX_DELAY

\* wait_if_needed() is called: the thread goes for the lock.
rl_call_wait(t) ==
    /\ rl_pc[t] = "ready"
    /\ rl_pc' = [rl_pc EXCEPT ![t] = "wait_lock"]
    /\ stats' = NoStats
    /\ UNCHANGED <<has_proxy, timestamps, rl_lock, recs, sleep_left>>

\* with self._lock: the window check, up to the time.sleep(wait_time).
rl_wait_enter(t) ==
    /\ rl_pc[t] = "wait_lock"
    /\ rl_lock = "free"
    /\ rl_lock' = t
    /\ LET cleaned == IF has_proxy THEN timestamps
                      ELSE clean_old_timestamps(timestamps)
           full    == ~has_proxy /\ Saturated(cleaned)
       IN  /\ timestamps' = cleaned
           /\ IF full /\ cleaned = <<>>
              THEN /\ rl_pc' = [rl_pc EXCEPT ![t] = "raised"]
                   /\ UNCHANGED sleep_left
              ELSE /\ rl_pc' = [rl_pc EXCEPT ![t] = "window_sleep"]
                   /\ sleep_left' = IF full /\ WaitTime(cleaned) > 0
                                    THEN WaitTime(cleaned) ELSE 0
    /\ stats' = NoStats
    /\ UNCHANGED <<has_proxy, recs>>

\* The window sleep is over: delay = self._random_delay(); time.sleep(delay)
rl_delay(t, delay) ==
    /\ rl_pc[t] = "window_sleep"
    /\ sleep_left = 0
    /\ rl_pc' = [rl_pc EXCEPT ![t] = "delay_sleep"]
    /\ sleep_left' = delay
    /\ UNCHANGED <<has_proxy, timestamps, rl_lock, recs, stats>>

\* wait_if_needed returning with the lock still held.
rl_wait_return_locked(t) ==
    /\ rl_pc[t] = "delay_sleep"
    /\ sleep_left = 0
    /\ rl_pc' = [rl_pc EXCEPT ![t] = "ready"]
    /\ recs' = [recs EXCEPT ![t] = 0]
    /\ UNCHANGED <<has_proxy, timestamps, rl_lock, sleep_left, stats>>

\* The delay is over: the with block ends and wait_if_needed returns.
rl_wait_return(t) ==
    /\ rl_pc[t] = "delay_sleep"
    /\ sleep_left = 0
    /\ rl_lock' = "free"
    /\ rl_pc' = [rl_pc EXCEPT ![t] = "ready"]
    /\ recs' = [recs EXCEPT ![t] = 0]
    /\ UNCHANGED <<has_proxy, timestamps, sleep_left, stats>>

\* record_request(), called by _request after each response it receives: at
\* most max_retries times per wait_if_needed.
record_request(t) ==
    /\ rl_pc[t] = "ready"
    /\ recs[t] < max_retries
    /\ rl_lock = "free"
    /\ Len(timestamps) < MaxStamps
    /\ timestamps' = Append(timestamps, 0)
    /\ recs' = [recs EXCEPT ![t] = recs[t] + 1]
    /\ stats' = NoStats
    /\ UNCHANGED <<has_proxy, rl_lock, rl_pc, sleep_left>>

\* get_stats()
get_stats(t) ==
    /\ rl_pc[t] = "ready"
    /\ rl_lock = "free"
    /\ timestamps' = clean_old_timestamps(timestamps)
    /\ stats' = Len(clean_old_timestamps(timestamps))
    /\ UNCHANGED <<has_proxy, rl_lock, rl_pc, recs, sleep_left>>

\* The clock advances by one tick.
Tick ==
    /\ timestamps' = Aged(timestamps)
    /\ sleep_left' = IF sleep_left > 0 THEN sleep_left - 1 ELSE 0
    /\ stats' = NoStats
    /\ UNCHANGED <<has_proxy, rl_lock, rl_pc, recs>>

\* History of the latest window wait: `need` is the time its oldest request
\* had left in the window when the check found the window full, `slept` the
\* time passed since, inside the call.
ForgetWait == wwait' = NoWait /\ UNCHANGED rapid

NoteWindow ==
    /\ wwait' = IF ~has_proxy /\ Saturated(timestamps')
                THEN [need |-> WINDOW_SECONDS - Head(timestamps'), slept |-> 0]
                ELSE NoWait
    /\ UNCHANGED rapid

NoteReturn ==
    /\ rapid' = IF rapid > MAX_REQUESTS THEN rapid ELSE rapid + 1
    /\ UNCHANGED wwait

NoteTick ==
    /\ wwait' = IF rl_lock # "free" /\ wwait.slept < wwait.need
                THEN [wwait EXCEPT !.slept = wwait.slept + 1]
                ELSE wwait
    /\ rapid' = 0

KeepHistory == UNCHANGED <<wwait, rapid>>

InitRate ==
    /\ QueueIdle
    /\ has_proxy \in BOOLEAN
    /\ RateIdle
    /\ ProxyIdle
    /\ ClientIdle
    /\ PagesIdle /\ BatchIdle /\ SideIdle

\* What is frozen while the limiter is exercised.
rateFrozen ==
    <<queueVars, proxyVars, clientVars, pageVars, batchVars, sideVars>>

\* One request pipeline, the use the program makes of the limiter.
Pipeline == "t1"

NextRate ==
    \/ rl_call_wait(Pipeline) /\ ForgetWait /\ UNCHANGED rateFrozen
    \/ rl_wait_enter(Pipeline) /\ NoteWindow /\ UNCHANGED rateFrozen
    \/ (\E delay \in RandomDelay(has_proxy) : rl_delay(Pipeline, delay))
           /\ KeepHistory /\ UNCHANGED rateFrozen
    \/ rl_wait_return(Pipeline) /\ NoteReturn /\ UNCHANGED rateFrozen
    \/ record_request(Pipeline) /\ ForgetWait /\ UNCHANGED rateFrozen
    \/ get_stats(Pipeline) /\ ForgetWait /\ UNCHANGED rateFrozen
    \/ Tick /\ NoteTick /\ UNCHANGED rateFrozen

SpecRate == InitRate /\ [][NextRate]_vars

\* What is frozen while the threads of a host share the limiter.
sharedFrozen ==
    <<queueVars, wwait, rapid, proxyVars, clientVars, pageVars, batchVars,
      sideVars>>

NextShared ==
    \/ (\E t \in Threads : rl_call_wait(t)) /\ UNCHANGED sharedFrozen
    \/ (\E t \in Threads : rl_wait_enter(t)) /\ UNCHANGED sharedFrozen
    \/ (\E t \in Threads : \E delay \in RandomDelay(has_proxy) : rl_delay(t, delay))
           /\ UNCHANGED sharedFrozen
    \/ (\E t \in Threads : rl_wait_return(t)) /\ UNCHANGED sharedFrozen
    \/ (\E t \in Threads : record_request(t)) /\ UNCHANGED sharedFrozen
    \/ Tick /\ UNCHANGED sharedFrozen

SpecShared == InitRate /\ [][NextShared]_vars

\* Scheduling: the clock advances, a thread that can run does run, and
\* threading.Lock lets no waiting thread starve (a thread blocked in acquire
\* gets the lock at one of its releases).
FairShared ==
    /\ WF_vars(Tick /\ UNCHANGED sharedFrozen)
    /\ \A t \in Threads :
          /\ WF_vars((\E delay \in RandomDelay(has_proxy) : rl_delay(t, delay))
                         /\ UNCHANGED sharedFrozen)
          /\ WF_vars(rl_wait_return(t) /\ UNCHANGED sharedFrozen)
          /\ SF_vars(rl_wait_enter(t) /\ UNCHANGED sharedFrozen)

SpecSharedLive == SpecShared /\ FairShared

\* ------------------------------------------------------------------------
\* ProxyRotator
\* ------------------------------------------------------------------------

\* The lists __init__ can load: none, one proxy, or the lines of a proxy
\* file, which are not deduplicated.
Pools ==
    {<<>>, <<"p1">>, <<"p1", "p2">>, <<"p1", "p2", "p3">>, <<"p1", "p1", "p2">>}

\* has_multiple
has_multiple(pool) == Len(pool) > 1

\* What get_current returns: None without proxies, else
\* _proxies[_current_index].
CurrentProxy(pool, index) == IF pool = <<>> THEN "None" ELSE pool[index + 1]

\* _rotate stepping backwards.
RotateBack(index, len) == (index + len - 1) % len

\* _rotate: _current_index = (_current_index + 1) % len(_proxies)
Rotate(index, len) == (index + 1) % len

\* record_request testing the counter with > in place of >=.
AfterRecordLate(pool, index, count) ==
    IF count + 1 > ROTATE_EVERY_REQUESTS
    THEN [index |-> Rotate(index, Len(pool)), count |-> 0, rotated |-> 1]
    ELSE [index |-> index, count |-> count + 1, rotated |-> 0]

\* The critical section of record_request, from the counter it has read.
AfterRecord(pool, index, count) ==
    IF count + 1 >= ROTATE_EVERY_REQUESTS
    THEN [index |-> Rotate(index, Len(pool)), count |-> 0, rotated |-> 1]
    ELSE [index |-> index, count |-> count + 1, rotated |-> 0]

\* The critical section of rotate_on_error.
AfterError(pool, index) == [index |-> Rotate(index, Len(pool)), count |-> 0]

\* History kept since the latest get_current or rotate_on_error (or since
\* __init__): which of them it was, the index and the counter it found, what
\* get_current returned, and the record_request calls returned and the
\* rotations they made since.
Since(what, seen) ==
    [last |-> what, from |-> current_index, was |-> request_count,
     seen |-> seen, n |-> 0, rots |-> 0]

Counted(rotated) ==
    [hist EXCEPT !.n = hist.n + 1, !.rots = hist.rots + rotated]

\* get_current()
get_current(t) ==
    /\ pr_pc[t] = "ready"
    /\ proxies = <<>> \/ pr_lock = "free"
    /\ hist' = Since("get", CurrentProxy(proxies, current_index))
    /\ UNCHANGED <<proxies, current_index, request_count, pr_lock, pr_pc, pr_local>>

\* record_request() called without looking at has_multiple.
pr_call_record_unguarded(t) ==
    /\ pr_pc[t] = "ready"
    /\ hist.n < MaxCalls
    /\ pr_pc' = [pr_pc EXCEPT ![t] = "record_lock"]
    /\ UNCHANGED <<proxies, current_index, request_count, pr_lock, pr_local, hist>>

\* record_request() is called: it returns at once unless has_multiple, else
\* goes for the lock.
pr_call_record(t) ==
    /\ pr_pc[t] = "ready"
    /\ hist.n < MaxCalls
    /\ IF has_multiple(proxies)
       THEN /\ pr_pc' = [pr_pc EXCEPT ![t] = "record_lock"]
            /\ UNCHANGED hist
       ELSE /\ hist' = Counted(0)
            /\ UNCHANGED pr_pc
    /\ UNCHANGED <<proxies, current_index, request_count, pr_lock, pr_local>>

\* record_request entering its critical section whether the lock is free or
\* not.
pr_record_enter_unlocked(t) ==
    /\ pr_pc[t] = "record_lock"
    /\ pr_lock' = t
    /\ pr_local' = [pr_local EXCEPT ![t] = request_count]
    /\ pr_pc' = [pr_pc EXCEPT ![t] = "record_add"]
    /\ UNCHANGED <<proxies, current_index, request_count, hist>>

\* with self._lock: the counter is read for `self._request_count += 1`.
pr_record_enter(t) ==
    /\ pr_pc[t] = "record_lock"
    /\ pr_lock = "free"
    /\ pr_lock' = t
    /\ pr_local' = [pr_local EXCEPT ![t] = request_count]
    /\ pr_pc' = [pr_pc EXCEPT ![t] = "record_add"]
    /\ UNCHANGED <<proxies, current_index, request_count, hist>>

\* The counter is stored, the threshold is tested, _rotate() runs and the
\* counter is reset; the with block ends.
pr_record_exit(t) ==
    /\ pr_pc[t] = "record_add"
    /\ LET after == AfterRecord(proxies, current_index, pr_local[t])
       IN  /\ current_index' = after.index
           /\ request_count' = after.count
           /\ hist' = Counted(after.rotated)
    /\ pr_lock' = "free"
    /\ pr_local' = [pr_local EXCEPT ![t] = 0]
    /\ pr_pc' = [pr_pc EXCEPT ![t] = "ready"]
    /\ UNCHANGED proxies

\* rotate_on_error() is called: it returns at once unless has_multiple.
pr_call_error(t) ==
    /\ pr_pc[t] = "ready"
    /\ IF has_multiple(proxies)
       THEN /\ pr_pc' = [pr_pc EXCEPT ![t] = "error_lock"]
            /\ UNCHANGED hist
       ELSE /\ hist' = Since("error", "unseen")
            /\ UNCHANGED pr_pc
    /\ UNCHANGED <<proxies, current_index, request_count, pr_lock, pr_local>>

\* with self._lock:
pr_error_enter(t) ==
    /\ pr_pc[t] = "error_lock"
    /\ pr_lock = "free"
    /\ pr_lock' = t
    /\ pr_pc' = [pr_pc EXCEPT ![t] = "error_rotate"]
    /\ UNCHANGED <<proxies, current_index, request_count, pr_local, hist>>

\* rotate_on_error that leaves the counter as it is.
pr_error_exit_keep(t) ==
    /\ pr_pc[t] = "error_rotate"
    /\ current_index' = AfterError(proxies, current_index).index
    /\ hist' = Since("error", "unseen")
    /\ pr_lock' = "free"
    /\ pr_pc' = [pr_pc EXCEPT ![t] = "ready"]
    /\ UNCHANGED <<proxies, request_count, pr_local>>

\* self._rotate(); self._request_count = 0; the with block ends.
pr_error_exit(t) ==
    /\ pr_pc[t] = "error_rotate"
    /\ current_index' = AfterError(proxies, current_index).index
    /\ request_count' = AfterError(proxies, current_index).count
    /\ hist' = Since("error", "unseen")
    /\ pr_lock' = "free"
    /\ pr_pc' = [pr_pc EXCEPT ![t] = "ready"]
    /\ UNCHANGED <<proxies, pr_local>>

\* What is frozen while the rotator is exercised.
proxyFrozen ==
    <<queueVars, rateVars, clientVars, pageVars, batchVars, sideVars>>

InitProxy ==
    /\ QueueIdle
    /\ has_proxy = FALSE /\ RateIdle
    /\ proxies \in Pools
    /\ ProxyFresh
    /\ ClientIdle
    /\ PagesIdle /\ BatchIdle /\ SideIdle

\* The calls the threads T make on the rotator.
ProxyCalls(T) ==
    \/ (\E t \in T : get_current(t)) /\ UNCHANGED proxyFrozen
    \/ (\E t \in T : pr_call_record(t)) /\ UNCHANGED proxyFrozen
    \/ (\E t \in T : pr_record_enter(t)) /\ UNCHANGED proxyFrozen
    \/ (\E t \in T : pr_record_exit(t)) /\ UNCHANGED proxyFrozen
    \/ (\E t \in T : pr_call_error(t)) /\ UNCHANGED proxyFrozen
    \/ (\E t \in T : pr_error_enter(t)) /\ UNCHANGED proxyFrozen
    \/ (\E t \in T : pr_error_exit(t)) /\ UNCHANGED proxyFrozen

\* The rotator used by one request pipeline.
NextProxy == ProxyCalls({Pipeline})

SpecProxy == InitProxy /\ [][NextProxy]_vars

\* The rotator shared by the threads of a host.
NextProxyShared == ProxyCalls(Threads)

SpecProxyShared == InitProxy /\ [][NextProxyShared]_vars

\* ------------------------------------------------------------------------
\* InstagramClient._request
\* ------------------------------------------------------------------------

\* What one attempt can meet: a response, given by its status code, whether
\* its text contains "wait", its Retry-After header (<<>> without one) and
\* the length of its text, or a requests.RequestException (status 0) whose
\* str() has that length.
Answer(status, wait, retry_after, size) ==
    [status |-> status, wait |-> wait, retry_after |-> retry_after, size |-> size]

\* Retry-After headers: delay-seconds, or an HTTP-date.
Sixty == <<"6", "0">>

HttpDate == <<"W", "e", "d", ",">>

Answers ==
    {Answer(200, FALSE, <<>>, 3), Answer(404, FALSE, <<>>, 3),
     Answer(429, FALSE, <<>>, 3), Answer(429, FALSE, Sixty, 3),
     Answer(429, FALSE, HttpDate, 3),
     Answer(401, TRUE, <<>>, 3), Answer(401, FALSE, <<>>, 3),
     Answer(500, FALSE, <<>>, 3), Answer(500, FALSE, <<>>, 201),
     Answer(0, FALSE, <<>>, 3), Answer(0, FALSE, <<>>, 5)}

\* response.text, or str(e): the character at position i is written i.
ResponseText(answer) == [i \in 1 .. answer.size |-> i]

Untruncated(text) == text

\* text[:200]
Truncated(text) == SubSeq(text, 1, IF Len(text) < 200 THEN Len(text) ELSE 200)

\* status_code == 429 or (status_code == 401 and "wait" in text.lower())
RateLimited(answer) ==
    answer.status = 429 \/ (answer.status = 401 /\ answer.wait)

DigitValue ==
    [c \in {"0", "1", "2", "3", "4", "5", "6", "7", "8", "9"} |->
        CASE c = "0" -> 0 [] c = "1" -> 1 [] c = "2" -> 2 [] c = "3" -> 3
          [] c = "4" -> 4 [] c = "5" -> 5 [] c = "6" -> 6 [] c = "7" -> 7
          [] c = "8" -> 8 [] c = "9" -> 9]

\* The number a text of digits denotes, read after acc.
RECURSIVE Decimal(_, _)
Decimal(text, acc) ==
    IF text = <<>> THEN acc
    ELSE Decimal(Tail(text), 10 * acc + DigitValue[Head(text)])

\* float(text) succeeds: here, on a text of digits.
IsFloat(text) ==
    text # <<>> /\ \A i \in 1 .. Len(text) : text[i] \in DOMAIN DigitValue

\* float(response.headers.get("Retry-After", 300)) raises ValueError.
HeaderRaises(answer) ==
    answer.retry_after # <<>> /\ ~IsFloat(answer.retry_after)

\* retry_after = float(headers.get("Retry-After", 300)), 1.0 with several
\* proxies.
RetryAfter(answer, pool) ==
    IF has_multiple(pool) THEN 1
    ELSE IF answer.retry_after = <<>> THEN 300
    ELSE Decimal(answer.retry_after, 0)

\* 2**attempt
Pow2FromTwo(a) == IF a = 0 THEN 2 ELSE 4

RECURSIVE Pow2(_)
Pow2(a) == IF a = 0 THEN 1 ELSE 2 * Pow2(a - 1)

\* The loop body giving up on a rate-limited answer one attempt early.
OutcomeGivesUpEarly(answer, att) ==
    IF answer.status = 0
    THEN IF att < max_retries - 1 THEN "backoff" ELSE "ApiError"
    ELSE IF RateLimited(answer)
    THEN IF HeaderRaises(answer) THEN "ValueError"
         ELSE IF att < max_retries - 2 THEN "rate_wait" ELSE "RateLimitError"
    ELSE IF answer.status = 404 THEN "ProfileNotFoundError"
    ELSE IF answer.status >= 400 THEN "ApiError"
    ELSE "response"

\* The loop body treating 404 as a failure to retry.
OutcomeRetries404(answer, att) ==
    IF answer.status = 0 \/ answer.status = 404
    THEN IF att < max_retries - 1 THEN "backoff" ELSE "ApiError"
    ELSE IF RateLimited(answer)
    THEN IF HeaderRaises(answer) THEN "ValueError"
         ELSE IF att < max_retries - 1 THEN "rate_wait" ELSE "RateLimitError"
    ELSE IF answer.status >= 400 THEN "ApiError"
    ELSE "response"

\* What the body of the loop does with the answer of attempt att: sleep and
\* retry (backoff, rate_wait), raise (the ValueError of float() included), or
\* return the response.
Outcome(answer, att) ==
    IF answer.status = 0
    THEN IF att < max_retries - 1 THEN "backoff" ELSE "ApiError"
    ELSE IF RateLimited(answer)
    THEN IF HeaderRaises(answer) THEN "ValueError"
         ELSE IF att < max_retries - 1 THEN "rate_wait" ELSE "RateLimitError"
    ELSE IF answer.status = 404 THEN "ProfileNotFoundError"
    ELSE IF answer.status >= 400 THEN "ApiError"
    ELSE "response"

\* proxy_rotator.record_request() as one call.
Recorded(pool, index, count) ==
    IF has_multiple(pool) THEN AfterRecord(pool, index, count)
    ELSE [index |-> index, count |-> count, rotated |-> 0]

\* proxy_rotator.rotate_on_error() as one call.
Forced(pool, index, count) ==
    IF has_multiple(pool)
    THEN [index |-> AfterError(pool, index).index,
          count |-> AfterError(pool, index).count, rotated |-> 1]
    ELSE [index |-> index, count |-> count, rotated |-> 0]

\* The rotator after the calls one attempt makes on it.
RotatorAfter(answer, pool, index, count) ==
    IF answer.status = 0 THEN [index |-> index, count |-> count, rotated |-> 0]
    ELSE LET rec == Recorded(pool, index, count)
         IN  IF RateLimited(answer)
             THEN LET err == Forced(pool, rec.index, rec.count)
                  IN  [err EXCEPT !.rotated = rec.rotated + err.rotated]
             ELSE rec

\* The text the error raised carries: ApiError(status_code, text[:200]) or
\* ApiError(0, str(e)).
ErrorText(answer, out) ==
    IF out # "ApiError" THEN <<>>
    ELSE IF answer.status = 0 THEN ResponseText(answer)
    ELSE Truncated(ResponseText(answer))

\* self.rate_limiter.wait_if_needed(), then the loop is entered.
cl_call ==
    /\ cl_pc \in {"idle", "done"}
    /\ cl_pc' = "attempt"
    /\ attempt' = 0
    /\ call' = [NoCall EXCEPT !.waits = 1, !.index = current_index,
                              !.count = request_count]
    /\ result' = NoResult
    /\ UNCHANGED <<proxies, current_index, request_count, session>>

\* One pass through the body of the loop, up to the sleep, the raise or the
\* return that ends it.
cl_attempt(answer) ==
    /\ cl_pc = "attempt"
    /\ LET out   == Outcome(answer, attempt)
           after == RotatorAfter(answer, proxies, current_index, request_count)
           got   == IF answer.status = 0 THEN 0 ELSE 1
           slept == IF out = "rate_wait" THEN <<RetryAfter(answer, proxies)>>
                    ELSE IF out = "backoff" THEN <<Pow2(attempt)>>
                    ELSE <<>>
       IN  /\ current_index' = after.index
           /\ request_count' = after.count
           /\ call' = [call EXCEPT
                         !.answers = Append(call.answers, answer),
                         !.recorded = call.recorded + got,
                         !.forced = call.forced
                                      + (IF got = 1 /\ RateLimited(answer)
                                         THEN 1 ELSE 0),
                         !.rotations = call.rotations + after.rotated,
                         !.sleeps = call.sleeps \o slept,
                         !.message = ErrorText(answer, out)]
           /\ cl_pc' = IF out \in {"rate_wait", "backoff"} THEN out ELSE "done"
           /\ result' =
                IF out \in {"rate_wait", "backoff"} THEN NoResult
                ELSE [kind |-> out,
                      value |-> IF out = "RateLimitError"
                                THEN RetryAfter(answer, proxies)
                                ELSE answer.status]
    /\ UNCHANGED <<proxies, attempt, session>>

\* time.sleep(retry_after) is over: self.refresh_session(); continue
cl_refresh ==
    /\ cl_pc = "rate_wait"
    /\ call' = [call EXCEPT !.refreshes = call.refreshes + 1]
    /\ session' = [session EXCEPT
                      !.cookies = NewSession(session.cookies_file, session.loadable)]
    /\ attempt' = attempt + 1
    /\ cl_pc' = "attempt"
    /\ UNCHANGED <<proxies, current_index, request_count, result>>

cl_continue_waits ==
    /\ cl_pc = "backoff"
    /\ attempt' = attempt + 1
    /\ cl_pc' = "attempt"
    /\ call' = [call EXCEPT !.waits = call.waits + 1]
    /\ UNCHANGED <<proxies, current_index, request_count, result, session>>

\* time.sleep(wait_time) is over: continue
cl_continue ==
    /\ cl_pc = "backoff"
    /\ attempt' = attempt + 1
    /\ cl_pc' = "attempt"
    /\ UNCHANGED <<proxies, current_index, request_count, result, call, session>>

\* The cookie file is removed, replaced by one that cannot be loaded, or put
\* back, by whoever owns it.
cookies_file_changes ==
    /\ session.cookies_file
    /\ session' = [session EXCEPT !.loadable = ~session.loadable]
    /\ UNCHANGED <<proxies, current_index, request_count, cl_pc, attempt, call,
                   result>>

\* What is frozen while the client makes requests: the rotator is called
\* by this one thread alone, its lock is free between the calls.
clientFrozen ==
    <<queueVars, rateVars, pr_lock, pr_pc, pr_local, hist, pageVars, batchVars,
      sideVars>>

\* A client whose rotator is in any state earlier requests can have left.
InitClient ==
    /\ QueueIdle
    /\ has_proxy = FALSE /\ RateIdle
    /\ proxies \in Pools
    /\ current_index \in (IF has_multiple(proxies) THEN 0 .. Len(proxies) - 1
                          ELSE {0})
    /\ request_count \in (IF has_multiple(proxies)
                          THEN 0 .. ROTATE_EVERY_REQUESTS - 1 ELSE {0})
    /\ pr_lock = "free"
    /\ pr_pc = [t \in Threads |-> "ready"]
    /\ pr_local = [t \in Threads |-> 0]
    /\ hist = [last |-> "init", from |-> 0, was |-> 0, seen |-> "unseen",
               n |-> 0, rots |-> 0]
    /\ NoRequest
    /\ session \in {Constructed(FALSE, FALSE), Constructed(TRUE, TRUE)}
    /\ PagesIdle /\ BatchIdle /\ SideIdle

NextClient ==
    \/ cl_call /\ UNCHANGED clientFrozen
    \/ (\E answer \in Answers : cl_attempt(answer)) /\ UNCHANGED clientFrozen
    \/ cl_refresh /\ UNCHANGED clientFrozen
    \/ cl_continue /\ UNCHANGED clientFrozen
    \/ cookies_file_changes /\ UNCHANGED clientFrozen

SpecClient == InitClient /\ [][NextClient]_vars

\* ------------------------------------------------------------------------
\* InstagramClient.iter_posts (client.py), one iteration over the posts of a
\* user. Each get_posts_page call ends as a _request can end, or with the
\* page the server holds at the cursor.
\* ------------------------------------------------------------------------

MaxLimit == 6

MaxFailures == 3

max_page_retries == 3

\* The page of the server a cursor leads to: the first for None.
PageOf(c) == CASE c = "None" -> 1 [] c = "c2" -> 2 [] OTHER -> 3

\* Post j of page k.
PostId(k, j) == 10 * k + j

PostsOf(k, n) == [j \in 1 .. n |-> PostId(k, j)]

\* The servers iterated: three pages of two posts; one page; a page without
\* posts between two others; a first page that announces more without a
\* cursor, with an empty cursor, or that gives a cursor without announcing
\* more; no post at all.
Backends ==
    {<<PostsPage(PostsOf(1, 2), TRUE, "c2"), PostsPage(PostsOf(2, 2), TRUE, "c3"),
       PostsPage(PostsOf(3, 2), FALSE, "None")>>,
     <<PostsPage(PostsOf(1, 1), FALSE, "None")>>,
     <<PostsPage(PostsOf(1, 2), TRUE, "c2"), PostsPage(<<>>, TRUE, "c3"),
       PostsPage(PostsOf(3, 1), FALSE, "None")>>,
     <<PostsPage(PostsOf(1, 2), TRUE, "None"), PostsPage(PostsOf(2, 1), FALSE, "None")>>,
     <<PostsPage(PostsOf(1, 2), TRUE, ""), PostsPage(PostsOf(2, 1), FALSE, "None")>>,
     <<PostsPage(PostsOf(1, 1), FALSE, "c2"), PostsPage(PostsOf(2, 1), FALSE, "None")>>,
     <<PostsPage(<<>>, FALSE, "None")>>}

\* How a get_posts_page call can end: the page, or an error of _request, or
\* ApiError(status_code, "Invalid JSON response") on a response.
End(kind, status) == [kind |-> kind, status |-> status]

FetchEnds ==
    {End("page", 200), End("ApiError", 200), End("ApiError", 0),
     End("ApiError", 500), End("RateLimitError", 429),
     End("ProfileNotFoundError", 404), End("ValueError", 429)}

\* except (ApiError, RateLimitError)
Caught(end) == end.kind \in {"ApiError", "RateLimitError"}

Event(ev, at, kind, n) == [ev |-> ev, cursor |-> at, kind |-> kind, n |-> n]

\* The get_posts_page calls that failed so far.
Failures == Cardinality({i \in DOMAIN log :
                            log[i].ev = "fetch" /\ log[i].kind # "page"})

\* not page.has_next_page or not page.end_cursor
LastPage(p) == ~p.has_next_page \/ p.end_cursor \in {"None", ""}

\* `if limit`: None and 0 are both false.
Truthy(l) == l \notin {NoLimit, 0}

\* iter_posts(user_id, limit): up to the first get_posts_page.
iter_posts(l) ==
    /\ it_pc = "idle"
    /\ limit' = l
    /\ cursor' = "None"
    /\ it_count' = 0
    /\ page_attempt' = 0
    /\ it_pc' = "fetch"
    /\ UNCHANGED <<backend, page, pos, log, it_result>>

\* page = self.get_posts_page(user_id, after=cursor), and the except clause
\* when it raises: the last attempt ends the iteration with a plain return.
get_posts_page(end) ==
    /\ it_pc = "fetch"
    /\ end.kind # "page" => Failures < MaxFailures
    /\ log' = Append(log, Event("fetch", cursor, end.kind, end.status))
    /\ IF end.kind = "page"
       THEN /\ page' = backend[PageOf(cursor)]
            /\ pos' = 1
            /\ it_pc' = "posts"
            /\ UNCHANGED it_result
       ELSE IF ~Caught(end)
       THEN /\ it_pc' = "ended"
            /\ it_result' = [how |-> "raised", kind |-> end.kind,
                             status |-> end.status]
            /\ UNCHANGED <<page, pos>>
       ELSE IF page_attempt < max_page_retries - 1
       THEN /\ it_pc' = "page_wait"
            /\ UNCHANGED <<page, pos, it_result>>
       ELSE /\ it_pc' = "ended"
            /\ it_result' = [how |-> "returned", kind |-> "none", status |-> 0]
            /\ UNCHANGED <<page, pos>>
    /\ UNCHANGED <<backend, limit, cursor, it_count, page_attempt>>

page_retry_same_session ==
    /\ it_pc = "page_wait"
    /\ log' = Append(log, Event("sleep", cursor, "", 30 * (page_attempt + 1)))
    /\ page_attempt' = page_attempt + 1
    /\ it_pc' = "fetch"
    /\ UNCHANGED <<backend, limit, cursor, it_count, page, pos, it_result>>

\* time.sleep(30 * (attempt + 1)); self.refresh_session(); continue
page_retry ==
    /\ it_pc = "page_wait"
    /\ log' = log \o <<Event("sleep", cursor, "", 30 * (page_attempt + 1)),
                        Event("refresh_session", cursor, "", 0)>>
    /\ page_attempt' = page_attempt + 1
    /\ it_pc' = "fetch"
    /\ UNCHANGED <<backend, limit, cursor, it_count, page, pos, it_result>>

yield_post_unlimited ==
    /\ it_pc = "posts"
    /\ pos <= Len(page.posts)
    /\ log' = Append(log, Event("yield", cursor, "", page.posts[pos]))
    /\ it_count' = it_count + 1
    /\ pos' = pos + 1
    /\ UNCHANGED <<backend, limit, cursor, page_attempt, page, it_pc, it_result>>

\* yield post; count += 1; if limit and count >= limit: return
yield_post ==
    /\ it_pc = "posts"
    /\ pos <= Len(page.posts)
    /\ log' = Append(log, Event("yield", cursor, "", page.posts[pos]))
    /\ it_count' = it_count + 1
    /\ IF Truthy(limit) /\ it_count' >= limit
       THEN /\ it_pc' = "ended"
            /\ it_result' = [how |-> "returned", kind |-> "none", status |-> 0]
            /\ UNCHANGED pos
       ELSE /\ pos' = pos + 1
            /\ UNCHANGED <<it_pc, it_result>>
    /\ UNCHANGED <<backend, limit, cursor, page_attempt, page>>

next_page_ahead ==
    /\ it_pc = "posts"
    /\ pos > Len(page.posts)
    /\ IF LastPage(page)
       THEN /\ it_pc' = "ended"
            /\ it_result' = [how |-> "returned", kind |-> "none", status |-> 0]
            /\ UNCHANGED <<cursor, page_attempt, log>>
       ELSE /\ cursor' = "c3"
            /\ page_attempt' = 0
            /\ log' = Append(log, Event("page_delay", cursor', "", 0))
            /\ it_pc' = "fetch"
            /\ UNCHANGED it_result
    /\ UNCHANGED <<backend, limit, it_count, page, pos>>

next_page_stops ==
    /\ it_pc = "posts"
    /\ pos > Len(page.posts)
    /\ it_pc' = "ended"
    /\ it_result' = [how |-> "returned", kind |-> "none", status |-> 0]
    /\ UNCHANGED <<cursor, page_attempt, log>>
    /\ UNCHANGED <<backend, limit, it_count, page, pos>>

\* The posts of the page are through: break on the last page, else
\* cursor = page.end_cursor, page_delay(), and the retry loop anew.
next_page ==
    /\ it_pc = "posts"
    /\ pos > Len(page.posts)
    /\ IF LastPage(page)
       THEN /\ it_pc' = "ended"
            /\ it_result' = [how |-> "returned", kind |-> "none", status |-> 0]
            /\ UNCHANGED <<cursor, page_attempt, log>>
       ELSE /\ cursor' = page.end_cursor
            /\ page_attempt' = 0
            /\ log' = Append(log, Event("page_delay", cursor', "", 0))
            /\ it_pc' = "fetch"
            /\ UNCHANGED it_result
    /\ UNCHANGED <<backend, limit, it_count, page, pos>>

pagesFrozen ==
    <<queueVars, rateVars, proxyVars, clientVars, batchVars, sideVars>>

InitPages ==
    /\ QueueIdle
    /\ has_proxy = FALSE /\ RateIdle /\ ProxyIdle /\ ClientIdle
    /\ backend \in Backends
    /\ PagesFresh
    /\ BatchIdle /\ SideIdle

NextPages ==
    \/ (\E l \in {NoLimit} \cup 0 .. MaxLimit : iter_posts(l))
           /\ UNCHANGED pagesFrozen
    \/ (\E end \in FetchEnds : get_posts_page(end)) /\ UNCHANGED pagesFrozen
    \/ page_retry /\ UNCHANGED pagesFrozen
    \/ yield_post /\ UNCHANGED pagesFrozen
    \/ next_page /\ UNCHANGED pagesFrozen

SpecPages == InitPages /\ [][NextPages]_vars

\* Scheduling: the consumer keeps asking for the next post and the code of
\* the generator runs on, sleeps included, until it yields or returns.
FairPages ==
    /\ WF_vars((\E end \in FetchEnds : get_posts_page(end)) /\ UNCHANGED pagesFrozen)
    /\ WF_vars(page_retry /\ UNCHANGED pagesFrozen)
    /\ WF_vars(yield_post /\ UNCHANGED pagesFrozen)
    /\ WF_vars(next_page /\ UNCHANGED pagesFrozen)

SpecPagesLive == SpecPages /\ FairPages

\* ------------------------------------------------------------------------
\* Downloader._download_profile_aria2 (downloader.py): the posts of a profile
\* are collected into the aria2c queue and flushed batch by batch. The queue
\* is taken by its length.
\* ------------------------------------------------------------------------

ARIA2_BATCH_SIZE == 50

MaxPosts == 52

MaxMedia == 2

\* aria2 = Aria2Downloader(...); aria2.resume(username), which leaves the
\* queue empty; posts_in_batch = [].
download_profile_aria2 ==
    /\ bt_pc = "idle"
    /\ bt_pc' = "posts"
    /\ posts_in_batch' = 0
    /\ queued' = 0
    /\ UNCHANGED <<processed, flushed>>

\* One pass of `for post in self.client.iter_posts(...)`: a post of the
\* archive is skipped; else _collect_post_media adds `added` of its media to
\* the queue, and the queue is flushed once 50 posts have added some.
collect_post(in_archive, added) ==
    /\ bt_pc = "posts"
    /\ processed < MaxPosts
    /\ processed' = processed + 1
    /\ IF in_archive
       THEN UNCHANGED <<posts_in_batch, queued, flushed>>
       ELSE LET batch == IF added > 0 THEN posts_in_batch + 1 ELSE posts_in_batch
                length == queued + added
            IN IF batch >= ARIA2_BATCH_SIZE
               THEN /\ flushed' = Append(flushed, length)
                    /\ queued' = 0
                    /\ posts_in_batch' = 0
               ELSE /\ queued' = length
                    /\ posts_in_batch' = batch
                    /\ UNCHANGED flushed
    /\ UNCHANGED bt_pc

\* After the loop: if len(aria2) > 0, the rest is flushed.
flush_remaining ==
    /\ bt_pc = "posts"
    /\ bt_pc' = "done"
    /\ IF queued > 0
       THEN flushed' = Append(flushed, queued) /\ queued' = 0
       ELSE UNCHANGED <<flushed, queued>>
    /\ UNCHANGED <<posts_in_batch, processed>>

batchFrozen ==
    <<queueVars, rateVars, proxyVars, clientVars, pageVars, sideVars>>

InitBatch == Init

NextBatch ==
    \/ download_profile_aria2 /\ UNCHANGED batchFrozen
    \/ (\E in_archive \in BOOLEAN : \E added \in 0 .. MaxMedia :
            collect_post(in_archive, added)) /\ UNCHANGED batchFrozen
    \/ flush_remaining /\ UNCHANGED batchFrozen

SpecBatch == InitBatch /\ [][NextBatch]_vars

\* ------------------------------------------------------------------------
\* BehaviorSimulator (behavior.py): rest breaks between posts
\* ------------------------------------------------------------------------

\* _random_break_interval: random.randint(BREAK_POSTS_MIN, BREAK_POSTS_MAX)
BreakIntervals == BREAK_POSTS_MIN .. BREAK_POSTS_MAX

\* record_post_processed, except that the counter is kept after a break.
record_post_processed_keeps(interval) ==
    LET posts == behavior.posts_since_break + 1 IN
    behavior' =
        IF behavior.has_proxy
        THEN [behavior EXCEPT !.called = TRUE, !.slept = FALSE,
                              !.before = behavior.posts_since_break,
                              !.at = behavior.next_break_at]
        ELSE [behavior EXCEPT !.posts_since_break = posts,
                              !.next_break_at =
                                  IF posts >= behavior.next_break_at
                                  THEN interval ELSE @,
                              !.called = TRUE,
                              !.slept = posts >= behavior.next_break_at,
                              !.before = behavior.posts_since_break,
                              !.at = behavior.next_break_at]

\* record_post_processed: with a proxy nothing happens; else the counter
\* goes up by one and, at the threshold, _take_break sleeps, the counter is
\* reset and the threshold drawn again. called, slept, before and at record
\* the call: whether it slept, and the counter and threshold it found.
record_post_processed(interval) ==
    LET posts == behavior.posts_since_break + 1 IN
    behavior' =
        IF behavior.has_proxy
        THEN [behavior EXCEPT !.called = TRUE, !.slept = FALSE,
                              !.before = behavior.posts_since_break,
                              !.at = behavior.next_break_at]
        ELSE [behavior EXCEPT !.posts_since_break =
                                  IF posts >= behavior.next_break_at
                                  THEN 0 ELSE posts,
                              !.next_break_at =
                                  IF posts >= behavior.next_break_at
                                  THEN interval ELSE @,
                              !.called = TRUE,
                              !.slept = posts >= behavior.next_break_at,
                              !.before = behavior.posts_since_break,
                              !.at = behavior.next_break_at]

behaviorFrozen ==
    <<queueVars, rateVars, proxyVars, clientVars, pageVars, batchVars, slugs,
      media>>

InitBehavior ==
    /\ QueueIdle
    /\ has_proxy = FALSE /\ RateIdle /\ ProxyIdle /\ ClientIdle
    /\ PagesIdle /\ BatchIdle
    /\ \E has \in BOOLEAN : \E interval \in BreakIntervals :
           behavior = BehaviorSimulator(has, interval)
    /\ slugs = NoSlugs
    /\ media = NoDownload("absent")

NextBehavior ==
    (\E interval \in BreakIntervals : record_post_processed(interval))
        /\ UNCHANGED behaviorFrozen

SpecBehavior == InitBehavior /\ [][NextBehavior]_vars

\* ------------------------------------------------------------------------
\* _deduplicate_slug (downloader.py): one folder name per highlight
\* ------------------------------------------------------------------------

DigitChar(d) ==
    CASE d = 0 -> "0" [] d = 1 -> "1" [] d = 2 -> "2" [] d = 3 -> "3"
      [] d = 4 -> "4" [] d = 5 -> "5" [] d = 6 -> "6" [] d = 7 -> "7"
      [] d = 8 -> "8" [] d = 9 -> "9"

\* str(n) of a natural number
RECURSIVE Str(_)
Str(n) ==
    IF n < 10 THEN <<DigitChar(n)>>
    ELSE Str(n \div 10) \o <<DigitChar(n % 10)>>

\* f"{slug}_{counter}"
Suffixed(slug, counter) == slug \o <<"_">> \o Str(counter)

\* The slugs asked for: two highlights may share one, and a slug may look
\* like the candidate of another.
Slugs ==
    { <<"t", "e", "s", "t">>, <<"t", "e", "s", "t", "_", "2">>, <<"a">> }

\* The loop of _deduplicate_slug, except that it numbers from the slug on.
RECURSIVE FreeFromOne(_, _, _)
FreeFromOne(slug, counter, used) ==
    IF Suffixed(slug, counter - 1) \in used
    THEN FreeFromOne(slug, counter + 1, used)
    ELSE Suffixed(slug, counter - 1)

\* `while candidate in used: candidate = f"{slug}_{counter}"; counter += 1`,
\* entered with a candidate that is in `used`.
RECURSIVE FirstFree(_, _, _)
FirstFree(slug, counter, used) ==
    IF Suffixed(slug, counter) \in used
    THEN FirstFree(slug, counter + 1, used)
    ELSE Suffixed(slug, counter)

\* _deduplicate_slug(slug, used): the candidate it returns
Candidate(slug, used) ==
    IF slug \in used THEN FirstFree(slug, 2, used) ELSE slug

\* One call: the candidate is added to `used` and returned. asked and
\* returned list the calls, before is `used` as the call found it.
deduplicate_slug(slug) ==
    /\ Len(slugs.returned) < MaxSlugs
    /\ LET candidate == Candidate(slug, slugs.used) IN
       slugs' = [used |-> slugs.used \cup {candidate},
                 returned |-> Append(slugs.returned, candidate),
                 asked |-> Append(slugs.asked, slug),
                 before |-> slugs.used]

slugFrozen ==
    <<queueVars, rateVars, proxyVars, clientVars, pageVars, batchVars,
      behavior, media>>

InitSlug == Init

NextSlug ==
    (\E slug \in Slugs : deduplicate_slug(slug)) /\ UNCHANGED slugFrozen

SpecSlug == InitSlug /\ [][NextSlug]_vars

\* ------------------------------------------------------------------------
\* InstagramClient.download_media (client.py): one file, with retries
\* ------------------------------------------------------------------------

\* How one attempt goes: the file is streamed to the end; requests.get
\* raises a ConnectionError or a Timeout, or raise_for_status an HTTPError,
\* before the file is opened; iter_content raises a ChunkedEncodingError
\* after the file was opened for writing; f.write raises an OSError after
\* the file was opened.
Attempts ==
    {"ok", "ConnectionError", "Timeout", "HTTPError", "ChunkedEncodingError",
     "OSError"}

\* The subclasses of requests.RequestException among them
RequestException ==
    {"ConnectionError", "Timeout", "HTTPError", "ChunkedEncodingError"}

\* The destination once the try block is left: filepath.open("wb") creates
\* or truncates the file before the first chunk.
Written(file, outcome) ==
    CASE outcome = "ok" -> "complete"
      [] outcome \in {"ConnectionError", "Timeout", "HTTPError"} -> file
      [] OTHER -> "partial"

\* The except branch without its unlink.
Kept(file, outcome) == Written(file, outcome)

\* `if filepath.exists(): filepath.unlink()` of the except branch
Cleaned(file, outcome) ==
    IF outcome \in RequestException THEN "absent" ELSE Written(file, outcome)

\* download_media(url, filepath) is called.
dm_call ==
    /\ media.pc \in {"idle", "done"}
    /\ media' = [NoDownload(media.file) EXCEPT !.pc = "attempt"]

\* One turn of `for attempt in range(max_retries)`.
dm_attempt(outcome) ==
    /\ media.pc = "attempt"
    /\ LET file == Cleaned(media.file, outcome)
           made == media.attempts + 1
           met == Append(media.met, outcome) IN
       media' =
           CASE outcome = "ok" ->
                    [media EXCEPT !.pc = "done", !.file = file,
                                  !.attempts = made, !.met = met,
                                  !.result = "returned"]
             [] outcome = "OSError" ->
                    [media EXCEPT !.pc = "done", !.file = file,
                                  !.attempts = made, !.met = met,
                                  !.result = "OSError"]
             [] OTHER ->
                    IF media.attempt < media_max_retries - 1
                    THEN [media EXCEPT !.pc = "sleep", !.file = file,
                                       !.attempts = made, !.met = met,
                                       !.sleeps =
                                           Append(@, Pow2(media.attempt))]
                    ELSE [media EXCEPT !.pc = "done", !.file = file,
                                       !.attempts = made, !.met = met,
                                       !.result = "DownloadError"]

\* time.sleep(wait_time) is over: `continue`.
dm_continue ==
    /\ media.pc = "sleep"
    /\ media' = [media EXCEPT !.pc = "attempt", !.attempt = @ + 1]

\* What is at filepath when the first download starts.
Targets == {"absent", "complete"}

mediaFrozen ==
    <<queueVars, rateVars, proxyVars, clientVars, pageVars, batchVars,
      behavior, slugs>>

InitMedia ==
    /\ QueueIdle
    /\ has_proxy = FALSE /\ RateIdle /\ ProxyIdle /\ ClientIdle
    /\ PagesIdle /\ BatchIdle
    /\ behavior = BehaviorSimulator(FALSE, BREAK_POSTS_MIN)
    /\ slugs = NoSlugs
    /\ \E file \in Targets : media = NoDownload(file)

NextMedia ==
    \/ dm_call /\ UNCHANGED mediaFrozen
    \/ (\E outcome \in Attempts : dm_attempt(outcome))
           /\ UNCHANGED mediaFrozen
    \/ dm_continue /\ UNCHANGED mediaFrozen

SpecMedia == InitMedia /\ [][NextMedia]_vars

\* ------------------------------------------------------------------------
\* Vocabulary of the properties
\* ------------------------------------------------------------------------

\* One block of the recovery file format: "<url>\n  out=<filename>\n".
RecoveryBlock(item) ==
    item.url \o <<NL, " ", " ", "o", "u", "t", "=">> \o item.filename \o <<NL>>

\* The recovery file that lists the items of its, one block each, in order.
RECURSIVE RecoveryBlocks(_)
RecoveryBlocks(its) ==
    IF its = <<>> THEN <<>>
    ELSE RecoveryBlock(its[1]) \o RecoveryBlocks(Tail(its))

\* The positions of the batch whose destination file is not on disk.
MissingIn(batch) == {i \in Indices(batch) : batch[i].filename \notin disk}

AllKeys(batch) == {batch[i].shortcode : i \in Indices(batch)}

DistinctKeys(batch) ==
    \A i, j \in Indices(batch) : i # j => batch[i].shortcode # batch[j].shortcode

\* flush has just returned from a non-empty queue.
FlushedBatch == ret.op = "flush" /\ ret.batch # <<>>

\* The recovery file exists and has an out= line for the destination f.
ListsDestination(f) ==
    /\ recovery # Absent
    /\ Contains(recovery, <<" ", " ", "o", "u", "t", "=">> \o f \o <<NL>>)

\* The content is the complete serialisation of some non-empty pending list.
FullSnapshot(content) ==
    /\ ParseInputFile(content) # <<>>
    /\ content = RecoveryBlocks(ParseInputFile(content))

\* ------------------------------------------------------------------------
\* C1 .. C10: the batch download queue
\* ------------------------------------------------------------------------

\* C1: when flush returns and at least one destination file of the flushed
\* batch is missing on disk, the recovery file still exists, whatever the
\* exit status of the transfer was.
C1_KeptWhileMissing ==
    (FlushedBatch /\ MissingIn(ret.batch) # {}) => recovery # Absent

\* C2: the failed count flush returns is the number of flushed items whose
\* destination file is not on disk, whatever the transfer reported.
C2_FailedIsMissingCount ==
    ret.op = "flush" => ret.failed = Cardinality(MissingIn(ret.batch))

\* C3: when every destination file of the flushed batch is on disk once the
\* transfer step is over, flush returns the keys of all queued items and a
\* failed count of 0, and the recovery file is gone.
C3_AllPresentRoundTrip ==
    (FlushedBatch /\ MissingIn(ret.batch) = {}) =>
        /\ ret.keys = AllKeys(ret.batch)
        /\ ret.failed = 0
        /\ recovery = Absent

\* C4: when flush returns from 3 items (with 3 dedup keys) of which exactly 2
\* destination files are on disk, the succeeded set has size 2, the failed
\* count is 1, the recovery file exists, and a resume that follows
\* reconstructs exactly the one missing item.
C4_PartialFailure ==
    [][ (/\ FlushedBatch
         /\ Len(ret.batch) = 3
         /\ DistinctKeys(ret.batch)
         /\ Cardinality(MissingIn(ret.batch)) = 1)
        =>
        (/\ Cardinality(ret.keys) = 2
         /\ ret.failed = 1
         /\ recovery # Absent
         /\ (op' = "resume" \/ ret'.op = "resume") =>
               /\ Len(items') = 1
               /\ \E i \in MissingIn(ret.batch) :
                      /\ items'[1].url = ret.batch[i].url
                      /\ items'[1].filename = ret.batch[i].filename) ]_vars

\* C5: from the moment flush invokes the transfer until it has verified the
\* result, the recovery file exists and is the complete list of the queued
\* items, one url / out= block per item, in queue order.
C5_WrittenBeforeTransfer ==
    (op = "flush" /\ pc \in {"run", "verify"}) =>
        /\ recovery # Absent
        /\ recovery = RecoveryBlocks(items)

C5_Witness ==
    /\ op = "flush"
    /\ pc = "verify"
    /\ Len(items) = 3
    /\ recovery = RecoveryBlocks(items)

\* C6: between calls, every destination that failed verification in some
\* flush and is still not on disk is listed in an existing recovery file.
C6_FailedStaysListed ==
    pc = "idle" => \A f \in owed : ListsDestination(f)

\* C7: when flush has returned, the queue is empty, whatever the outcome.
C7_QueueEmptyAfterFlush ==
    ret.op = "flush" => Len(items) = 0

C7_Witness ==
    /\ FlushedBatch
    /\ ret.rc = "notfound"
    /\ ret.failed = Len(ret.batch)
    /\ Len(items) = 0

\* C8: a flush called on an empty queue returns (empty set, 0) at once,
\* without reaching the transfer and without touching the recovery file or
\* any other file.
C8_EmptyFlushNoOp ==
    [][ (pc = "idle" /\ items = <<>> /\ (op' = "flush" \/ ret'.op = "flush"))
        =>
        (/\ ret' = [NoRet EXCEPT !.op = "flush"]
         /\ pc' = "idle"
         /\ items' = <<>>
         /\ recovery' = recovery
         /\ disk' = disk) ]_vars

C8_Witness ==
    /\ ret = [NoRet EXCEPT !.op = "flush"]
    /\ pc = "idle"
    /\ recovery # Absent
    /\ disk # {}

\* C9: when the transfer binary is absent, flush returns an empty succeeded
\* set and as many failures as queued items, resume returns 0 successes and
\* as many failures as reconstructed items, and the recovery file stays.
C9_BinaryAbsent ==
    (ret.op \in {"flush", "resume"} /\ ret.rc = "notfound") =>
        /\ ret.op = "flush" => ret.keys = {}
        /\ ret.successful = 0
        /\ ret.failed = Len(ret.batch)
        /\ recovery # Absent

\* C10: whenever no write of the recovery file is in progress (so also after
\* an interruption), the file is absent or a complete serialisation of a
\* pending list.
C10_NoTornFile ==
    pc # "write" => (recovery = Absent \/ FullSnapshot(recovery))

\* C11: without a proxy, the number of requests get_stats reports in the
\* window never exceeds MAX_REQUESTS.
C11_WindowBounded == (~has_proxy /\ stats # NoStats) => stats <= MAX_REQUESTS

\* C12 (as amended): when wait_if_needed finds MAX_REQUESTS recorded requests
\* in the window, it returns only after the time the oldest of them needed to
\* leave the window has been slept.
C12_SleepsUntilOldestLeaves ==
    (rl_lock = "free" /\ wwait.need >= 0) => wwait.slept >= wwait.need

\* A wait_if_needed that found the window full, with its oldest request still
\* to leave it, has returned.
C12_Witness == rl_lock = "free" /\ wwait.need > 0 /\ ~has_proxy

\* C12 (as stated): without a proxy, MAX_REQUESTS + 1 calls of wait_if_needed
\* do not all return within one instant.
C12_RapidWaits == ~has_proxy => rapid <= MAX_REQUESTS

C14_DiffersAfterTwenty ==
    (proxies = <<"p1", "p2", "p3">> /\ hist.last = "get" /\ hist.n >= 20)
        => CurrentProxy(proxies, current_index) # hist.seen

\* C14 (as amended): with 3 distinct proxies, after n record_request calls
\* following a get_current, 20 <= n <= 40, the current proxy differs from
\* the one get_current returned, whatever the counter was.
C14_DiffersUpToForty ==
    (proxies = <<"p1", "p2", "p3">> /\ hist.last = "get"
        /\ hist.n >= 20 /\ hist.n <= 40)
        => CurrentProxy(proxies, current_index) # hist.seen

\* 40 calls were made after a get_current that found the counter at 19.
C14_Witness ==
    /\ proxies = <<"p1", "p2", "p3">>
    /\ hist.last = "get" /\ hist.was = 19 /\ hist.n = 40 /\ hist.rots = 2

\* C15: with several proxies, rotate_on_error moves the index one position
\* forward at once and resets the counter, whatever the counter was; of the
\* record_request calls that follow, the first 19 rotate nothing and the 20th
\* rotates once.
C15_ErrorResetsCounter ==
    (has_multiple(proxies) /\ hist.last = "error")
        => /\ request_count = hist.n % ROTATE_EVERY_REQUESTS
           /\ hist.rots = hist.n \div ROTATE_EVERY_REQUESTS
           /\ current_index = (hist.from + 1 + hist.rots) % Len(proxies)
           /\ hist.n <= 19 => hist.rots = 0
           /\ hist.n = 20 => hist.rots = 1

\* The 20th record_request after a rotate_on_error that found the counter
\* above 0 has returned.
C15_Witness ==
    /\ has_multiple(proxies)
    /\ hist.last = "error" /\ hist.was > 0 /\ hist.n = 20 /\ hist.rots = 1

\* C16: with no proxy or one, the index and the counter stay at 0 whatever
\* is called, and get_current keeps returning None or the one proxy.
C16_SingleIsNoOp ==
    Len(proxies) <= 1
        => /\ current_index = 0
           /\ request_count = 0
           /\ CurrentProxy(proxies, current_index) = CurrentProxy(proxies, 0)
           /\ hist.last = "get" => hist.seen = CurrentProxy(proxies, 0)

\* rotate_on_error, then record_request, were called on a rotator with one
\* proxy.
C16_Witness == Len(proxies) = 1 /\ hist.last = "error" /\ hist.n > 0

\* C17: the index of a rotator with proxies is always a position of the
\* list, and it only ever changes to the next position, circularly.
C17_CircularIndex ==
    /\ [](proxies # <<>> => current_index \in 0 .. Len(proxies) - 1)
    /\ [][current_index' # current_index
            => current_index' = (current_index + 1) % Len(proxies)]_vars

\* A rotation has wrapped around from the last of 3 proxies to the first.
C17_Witness ==
    /\ Len(proxies) = 3
    /\ hist.last = "error" /\ hist.from = 2 /\ hist.n = 0
    /\ current_index = 0

\* C18: whatever the interleaving of the threads, the counter stays below
\* 20 and no update is lost: after n record_request calls since __init__ or
\* since the latest rotate_on_error, the counter is n mod 20 and exactly
\* floor(n / 20) rotations were made.
C18_NoLostRotation ==
    has_multiple(proxies)
        => /\ request_count \in 0 .. ROTATE_EVERY_REQUESTS - 1
           /\ hist.last \in {"init", "error"}
                => /\ request_count = hist.n % ROTATE_EVERY_REQUESTS
                   /\ hist.rots = hist.n \div ROTATE_EVERY_REQUESTS
           /\ hist.last = "init"
                => current_index = hist.rots % Len(proxies)

\* With only record_request calls made, the 20th has rotated while a
\* thread waits for the lock the other holds.
C18_Witness ==
    /\ has_multiple(proxies)
    /\ hist.last = "init" /\ hist.n >= 20 /\ hist.rots = 1
    /\ \E t \in Threads : pr_pc[t] = "record_lock" /\ pr_lock \notin {"free", t}

\* The status codes the attempts of the _request in progress have met.
Statuses == [i \in DOMAIN call.answers |-> call.answers[i].status]

C20_NotFoundFailsAtOnce ==
    (call.answers # <<>> /\ call.answers[1].status = 404)
        => /\ cl_pc = "done"
           /\ Len(call.answers) = 1
           /\ result = [kind |-> "ProfileNotFoundError", value |-> 404]
           /\ call.sleeps = <<>>
           /\ call.refreshes = 0
           /\ call.forced = 0
           /\ call.waits = 1

\* A _request answered 404 has ended; its one record_request was the 20th
\* of the rotator, which rotated unforced.
C20_Witness ==
    /\ call.answers # <<>> /\ call.answers[1].status = 404
    /\ cl_pc = "done"
    /\ call.count = 19 /\ call.rotations = 1 /\ call.forced = 0

\* The attempts of the _request in progress that met a rate-limited response.
Limited == {i \in DOMAIN call.answers : RateLimited(call.answers[i])}

\* C21: every rate-limited response of a _request is followed by one
\* rotate_on_error; on an attempt before the last the request then sleeps 1 s
\* with several proxies, else the Retry-After of the response (300 s without
\* the header), and goes on to retry; on the last attempt it raises
\* RateLimitError carrying that duration and does not sleep.
C21_RateLimitedWaits ==
    /\ call.forced = Cardinality(Limited)
    /\ \A i \in Limited :
           IF i < max_retries
           THEN /\ Len(call.sleeps) >= i
                /\ has_multiple(proxies) => call.sleeps[i] = 1
                /\ (~has_multiple(proxies) /\ call.answers[i].retry_after = <<>>)
                       => call.sleeps[i] = 300
                /\ i = Len(call.answers) => cl_pc \in {"rate_wait", "attempt"}
           ELSE /\ cl_pc = "done"
                /\ result.kind = "RateLimitError"
                /\ has_multiple(proxies) => result.value = 1
                /\ (~has_multiple(proxies) /\ call.answers[i].retry_after = <<>>)
                       => result.value = 300
                /\ Len(call.sleeps) = max_retries - 1

\* The attempts of the _request in progress that met a RequestException.
Failed == {i \in DOMAIN call.answers : call.answers[i].status = 0}

\* C22 (as stated): with the attempts numbered from 1, a RequestException in
\* attempt a, not the last, is followed by a sleep of 2^a seconds.
C22_BackoffFromTwo ==
    \A a \in Failed :
        a < max_retries =>
            call.sleeps[a] = (CASE a = 1 -> 2 [] a = 2 -> 4 [] OTHER -> 8)

\* C22 (as amended): a RequestException in attempt a, not the last, is
\* followed by a sleep of 2^(a-1) seconds, 1 s then 2 s, and a retry; a
\* _request whose 3 attempts all met one has made exactly 3 attempts, slept
\* 1 s and 2 s, and raises ApiError with status 0 and the text of the last
\* exception.
C22_BackoffFromOne ==
    /\ \A a \in Failed :
           IF a < max_retries
           THEN /\ call.sleeps[a] = (CASE a = 1 -> 1 [] a = 2 -> 2 [] OTHER -> 4)
                /\ a = Len(call.answers) => cl_pc \in {"backoff", "attempt"}
           ELSE cl_pc = "done"
    /\ Failed = 1 .. max_retries
           => /\ Len(call.answers) = max_retries
              /\ call.sleeps = <<1, 2>>
              /\ result = [kind |-> "ApiError", value |-> 0]
              /\ call.message = ResponseText(call.answers[max_retries])
              /\ call.refreshes = 0 /\ call.forced = 0

\* The 3 attempts of a _request met RequestExceptions, the last one with a
\* text other than the first's.
C22_Witness ==
    /\ Failed = 1 .. max_retries
    /\ cl_pc = "done"
    /\ call.answers[1].size # call.answers[max_retries].size

\* C23: a response with a status of 400 or more that is neither 404 nor
\* rate-limited ends the _request with ApiError carrying the status and the
\* first 200 characters of the text; no attempt follows.
C23_ApiErrorTruncated ==
    \A i \in DOMAIN call.answers :
        LET answer == call.answers[i] IN
        (answer.status >= 400 /\ answer.status # 404 /\ ~RateLimited(answer))
            => /\ i = Len(call.answers)
               /\ cl_pc = "done"
               /\ result = [kind |-> "ApiError", value |-> answer.status]
               /\ Len(call.message) <= 200
               /\ \A k \in 1 .. 200 :
                      k <= answer.size
                          => k \in DOMAIN call.message /\ call.message[k] = k
               /\ Len(call.sleeps) = i - 1

\* The second attempt of a _request met a 500 whose text is longer than 200
\* characters.
C23_Witness ==
    /\ Len(call.answers) = 2
    /\ call.answers[2].status = 500 /\ call.answers[2].size > 200
    /\ cl_pc = "done"

\* The events of one kind in a stretch of the log.
EventsIn(from, to, ev) == {i \in from .. to : log[i].ev = ev}

Fetches == EventsIn(1, Len(log), "fetch")

\* The posts iter_posts has yielded between two places of the log, in order.
RECURSIVE YieldedIn(_, _)
YieldedIn(from, to) ==
    IF from > to THEN <<>>
    ELSE (IF log[from].ev = "yield" THEN <<log[from].n>> ELSE <<>>)
             \o YieldedIn(from + 1, to)

Yielded == YieldedIn(1, Len(log))

IsPrefix(s, t) == Len(s) <= Len(t) /\ \A i \in 1 .. Len(s) : s[i] = t[i]

\* The posts the server holds from its k-th page on, following the cursors.
RECURSIVE Available(_, _)
Available(b, k) ==
    b[k].posts \o (IF ~b[k].has_next_page \/ b[k].end_cursor \in {"None", ""}
                    THEN <<>>
                    ELSE Available(b, PageOf(b[k].end_cursor)))

\* C24: an iteration with limit L >= 1 in which no fetch fails yields the
\* posts of the server in order and ends having yielded min(L, total)
\* of them; once L posts are yielded it has ended, and no page is fetched
\* after the L-th post.
C24_LimitStops ==
    (it_pc # "idle" /\ limit >= 1 /\ Failures = 0)
        => LET total == Len(Available(backend, 1)) IN
           /\ IsPrefix(Yielded, Available(backend, 1))
           /\ Len(Yielded) <= limit
           /\ Len(Yielded) = limit => it_pc = "ended"
           /\ it_pc = "ended"
                  => Len(Yielded) = (IF limit < total THEN limit ELSE total)
           /\ \A i \in Fetches : Len(YieldedIn(1, i)) < limit

\* iter_posts with limit 5 over three pages of two posts has ended after 5
\* posts and 3 fetches.
C24_Witness ==
    /\ limit = 5 /\ Len(backend) = 3 /\ Len(backend[2].posts) = 2
    /\ Failures = 0
    /\ it_pc = "ended"
    /\ Len(Yielded) = 5
    /\ Cardinality(Fetches) = 3

\* The third attempt at a page has just failed with an error iter_posts
\* catches.
PageGivenUp ==
    /\ it_pc = "ended"
    /\ page_attempt = max_page_retries - 1
    /\ log # <<>>
    /\ log[Len(log)].ev = "fetch"
    /\ log[Len(log)].kind \in {"ApiError", "RateLimitError"}

\* The posts of the pages before the k-th.
RECURSIVE PostsBefore(_, _)
PostsBefore(b, k) ==
    IF k <= 1 THEN <<>> ELSE PostsBefore(b, k - 1) \o b[k - 1].posts

\* C25: when the third attempt at a page fails, iter_posts returns without
\* raising; the three attempts used the same cursor, with a sleep of 30 s
\* then 60 s and a refresh_session before each retry; the failed attempts
\* yielded nothing, and the posts yielded are those of the earlier pages,
\* each once and in order.
C25_GivesUpQuietly ==
    PageGivenUp
        => LET n == Len(log) IN
           /\ it_result.how = "returned"
           /\ n >= 7
           /\ \A i \in {n - 6, n - 3, n} :
                  /\ log[i].ev = "fetch" /\ log[i].cursor = cursor
                  /\ log[i].kind \in {"ApiError", "RateLimitError"}
           /\ log[n - 5].ev = "sleep" /\ log[n - 5].n = 30
           /\ log[n - 2].ev = "sleep" /\ log[n - 2].n = 60
           /\ log[n - 4].ev = "refresh_session"
           /\ log[n - 1].ev = "refresh_session"
           /\ YieldedIn(n - 6, n) = <<>>
           /\ Yielded = PostsBefore(backend, PageOf(cursor))

\* The second page was given up after the two posts of the first were
\* yielded.
C25_Witness ==
    /\ PageGivenUp
    /\ cursor = "c2"
    /\ Len(Yielded) = 2

\* The last successful fetch before place i of the log, 0 if none.
PageBefore(i) ==
    LET S == {j \in EventsIn(1, i - 1, "fetch") : log[j].kind = "page"}
    IN IF S = {} THEN 0 ELSE CHOOSE j \in S : \A k \in S : k <= j

\* C26: the first fetch uses the cursor None; every later fetch uses the
\* end_cursor of the page fetched last, after all the posts of that page
\* were yielded in the order of the page; and what is yielded after a fetch
\* is the beginning of its page.
C26_CursorOrder ==
    /\ \A i \in Fetches :
           LET j == PageBefore(i) IN
           IF j = 0 THEN log[i].cursor = "None"
           ELSE LET p == backend[PageOf(log[j].cursor)] IN
                /\ log[i].cursor = p.end_cursor
                /\ YieldedIn(j, i) = p.posts
    /\ LET j == PageBefore(Len(log) + 1) IN
       j # 0 => IsPrefix(YieldedIn(j, Len(log)), backend[PageOf(log[j].cursor)].posts)

\* Three pages of two posts were iterated to the end.
C26_Witness ==
    /\ Len(backend) = 3 /\ Len(backend[2].posts) = 2
    /\ it_pc = "ended"
    /\ Len(Yielded) = 6
    /\ \E i \in Fetches : log[i].cursor = "c3" /\ log[i].kind = "page"

\* C27: an ApiError of status 400 or more, or a ProfileNotFoundError, met by
\* a fetch ends the iteration at once and is raised to the caller as it is:
\* no sleep, no retry, no later fetch.
C27_OtherErrorsPropagate ==
    \A i \in Fetches :
        ((log[i].kind = "ApiError" /\ log[i].n >= 400)
         \/ log[i].kind = "ProfileNotFoundError")
            => /\ i = Len(log)
               /\ it_pc = "ended"
               /\ it_result = [how |-> "raised", kind |-> log[i].kind,
                               status |-> log[i].n]

\* C28: the queue holds at most 50 items at every flush of a profile
\* download, whatever the posts and the number of media of each.
C28_FlushAtMostFifty ==
    \A i \in DOMAIN flushed : flushed[i] <= ARIA2_BATCH_SIZE

\* resume has parsed the recovery file and not yet run the transfer.
Reconstructed == op = "resume" /\ pc = "run"

\* The URL lines of a recovery file that an out= line follows.
WellFormed(lines) ==
    {i \in 1 .. Len(lines) - 1 :
        StartsWith(Strip(lines[i]), Http) /\ Contains(lines[i + 1], OutEq)}

\* C29: resume creates no item for a URL line that no out= line follows: it
\* reconstructs one item per well-formed block, each with its destination.
C29_MalformedDropped ==
    Reconstructed
        => /\ Len(items) = Cardinality(WellFormed(SplitLines(recovery)))
           /\ \A i \in Indices(items) : items[i].filename # <<>>

\* The pending lists whose blocks, one after the other, make up the content.
RECURSIVE Listed(_)
Listed(content) ==
    IF content = <<>> THEN {<<>>}
    ELSE UNION {{<<item>> \o rest :
                    rest \in Listed(SubSeq(content, Len(RecoveryBlock(item)) + 1,
                                           Len(content)))} :
                item \in {it \in ItemPool : IsPrefix(RecoveryBlock(it), content)}}

\* The part of a filename before its first '.' or '_'.
KeyOf(filename) ==
    LET S == {i \in 1 .. Len(filename) : filename[i] \in {".", "_"}}
    IN  IF S = {} THEN filename
        ELSE SubSeq(filename, 1, (CHOOSE i \in S : \A j \in S : i <= j) - 1)

\* C30: from a recovery file that lists a pending list block by block,
\* resume reconstructs one item per block, in order, with the URL and the
\* filename of the block, and as shortcode the part of the filename before
\* its first '.' or '_'.
C30_ResumeReconstructs ==
    Reconstructed
        => \A batch \in Listed(recovery) :
               /\ Len(items) = Len(batch)
               /\ \A i \in Indices(batch) :
                      /\ items[i].url = batch[i].url
                      /\ items[i].filename = batch[i].filename
                      /\ items[i].shortcode = KeyOf(batch[i].filename)

\* resume has reconstructed three items from a complete recovery file.
C30_Witness ==
    /\ Reconstructed
    /\ Len(items) = 3
    /\ Listed(recovery) # {}

\* C33: a _request calls wait_if_needed once, before its first attempt and
\* before no other, and makes at most max_retries attempts, whatever they
\* meet.
C33_OneWaitThreeAttempts ==
    cl_pc # "idle"
        => /\ call.waits = 1
           /\ Len(call.answers) <= max_retries
           /\ cl_pc = "attempt" => attempt = Len(call.answers)
           /\ attempt < max_retries

\* A _request has ended after 3 attempts, the first two of which met a
\* rate-limited response and a RequestException.
C33_Witness ==
    /\ cl_pc = "done"
    /\ Len(call.answers) = max_retries
    /\ call.answers[1].status = 429
    /\ call.answers[2].status = 0
    /\ call.waits = 1

\* C34: without a proxy, a wait_if_needed that finds MAX_REQUESTS or more
\* requests in the window sleeps the time its oldest request has left in
\* the window plus the safety margin, a positive time, before it goes on to
\* its random delay; one that finds fewer does not sleep for the window.
C34_WindowWaitWithMargin ==
    rl_pc[Pipeline] = "window_sleep"
        => IF wwait.need >= 0
           THEN /\ ~has_proxy
                /\ wwait.slept < wwait.need
                       => sleep_left = wwait.need - wwait.slept + SAFETY_MARGIN
                /\ wwait.slept = wwait.need => sleep_left <= SAFETY_MARGIN
           ELSE sleep_left = 0

\* A wait_if_needed that found the window full has slept until its oldest
\* request left the window and has the whole margin still to sleep.
C34_Witness ==
    /\ rl_pc[Pipeline] = "window_sleep"
    /\ wwait.need >= 1
    /\ wwait.slept = wwait.need
    /\ sleep_left = SAFETY_MARGIN

\* C38: flush reports a shortcode as succeeded only if the destination of
\* every item of the batch carrying that shortcode is on disk.
C38_KeyOnlyWhenAllOnDisk ==
    FlushedBatch
        => \A k \in ret.keys :
               \A i \in Indices(ret.batch) :
                   ret.batch[i].shortcode = k => ret.batch[i].filename \in disk

\* C39: a thread that sleeps inside wait_if_needed does not hold the lock of
\* the limiter, so that record_request of another thread need not wait.
C39_NoLockAcrossSleep ==
    \A t \in Threads :
        (rl_pc[t] \in {"window_sleep", "delay_sleep"} /\ sleep_left > 0)
            => rl_lock # t

\* C36: an iteration with a limit yields no more posts than the limit; with
\* the limit 0 it yields none.
C36_LimitZeroYieldsNothing ==
    (it_pc # "idle" /\ limit # NoLimit) => Len(Yielded) <= limit

\* The pages of the server from its k-th on, following the cursors.
RECURSIVE Chain(_, _)
Chain(b, k) ==
    IF ~b[k].has_next_page \/ b[k].end_cursor \in {"None", ""} THEN 1
    ELSE 1 + Chain(b, PageOf(b[k].end_cursor))

\* C37: an iteration without limit in which no fetch fails yields the posts
\* of the chain of pages in order, fetches no page after the first one that
\* reports no continuation, and ends, having yielded every post of the chain
\* once and fetched each of its pages once.
C37_EndsAfterLastPage ==
    /\ []((it_pc # "idle" /\ limit = NoLimit /\ Failures = 0)
            => /\ IsPrefix(Yielded, Available(backend, 1))
               /\ Cardinality(Fetches) <= Chain(backend, 1)
               /\ it_pc = "ended"
                      => /\ Yielded = Available(backend, 1)
                         /\ Cardinality(Fetches) = Chain(backend, 1))
    /\ (it_pc # "idle" /\ limit = NoLimit)
           ~> (it_pc = "ended" \/ Failures > 0)

\* An iteration without limit over a first page of two posts that announces
\* more without a cursor, on a server that holds a second page, has ended
\* after one fetch.
C37_Witness ==
    /\ limit = NoLimit /\ Failures = 0
    /\ it_pc = "ended"
    /\ Len(backend) = 2 /\ backend[1].has_next_page /\ backend[1].end_cursor = "None"
    /\ Len(Yielded) = 2
    /\ Cardinality(Fetches) = 1

\* C35: every retry of a _request after a rate-limited response comes after
\* a refresh_session, and once the session has been recreated it holds the
\* cookies of the cookie file whenever one is configured.
C35_CookiesAfterRefresh ==
    /\ cl_pc = "attempt" => call.refreshes = Cardinality(Limited)
    /\ (session.cookies_file /\ call.refreshes > 0)
           => AuthCookies \subseteq session.cookies

\* C31: without a proxy record_post_processed adds one to the counter and
\* takes a break exactly when the counter reaches the threshold, after
\* which the counter is 0 and the threshold drawn again; the counter stays
\* below the threshold and the threshold within 50 .. 80. With a proxy the
\* call never sleeps and leaves the counter and the threshold alone.
C31_BreakAtThreshold ==
    /\ behavior.next_break_at \in BREAK_POSTS_MIN .. BREAK_POSTS_MAX
    /\ 0 <= behavior.posts_since_break
    /\ behavior.posts_since_break < behavior.next_break_at
    /\ behavior.called =>
           IF behavior.has_proxy
           THEN /\ ~behavior.slept
                /\ behavior.posts_since_break = behavior.before
                /\ behavior.next_break_at = behavior.at
           ELSE /\ behavior.slept <=> behavior.before + 1 = behavior.at
                /\ behavior.slept => behavior.posts_since_break = 0
                /\ ~behavior.slept =>
                       /\ behavior.posts_since_break = behavior.before + 1
                       /\ behavior.next_break_at = behavior.at

\* A break was taken at a threshold above the least one, and the next
\* threshold is another one.
C31_Witness ==
    /\ ~behavior.has_proxy
    /\ behavior.slept
    /\ behavior.at > BREAK_POSTS_MIN
    /\ behavior.next_break_at # behavior.at

\* C32: every slug _deduplicate_slug returns was not in `used` before the
\* call and is in it after, so the slugs returned on one `used` set are
\* pairwise distinct; the slug returned is the first free one of slug,
\* slug_2, slug_3, ...
C32_FirstFreeSlug ==
    LET n == Len(slugs.returned) IN
    /\ \A i, j \in 1 .. n : i # j => slugs.returned[i] # slugs.returned[j]
    /\ n > 0 =>
           LET slug == slugs.asked[n]
               got == slugs.returned[n] IN
           /\ got \notin slugs.before
           /\ got \in slugs.used
           /\ slugs.used = slugs.before \cup {got}
           /\ IF slug \notin slugs.before
              THEN got = slug
              ELSE \E k \in 2 .. n + 1 :
                       /\ got = slug \o <<"_">> \o Str(k)
                       /\ \A j \in 2 .. k - 1 :
                              slug \o <<"_">> \o Str(j) \in slugs.before

\* Three calls with "test" have returned test, test_2 and test_3.
C32_Witness ==
    /\ slugs.asked =
           << <<"t", "e", "s", "t">>, <<"t", "e", "s", "t">>,
              <<"t", "e", "s", "t">> >>
    /\ slugs.returned =
           << <<"t", "e", "s", "t">>, <<"t", "e", "s", "t", "_", "2">>,
              <<"t", "e", "s", "t", "_", "3">> >>

\* C40: download_media makes at most max_retries attempts; no file is at
\* the destination while it waits to retry, nor when it has raised
\* DownloadError.
C40_NoFileAfterDownloadError ==
    /\ media.attempts <= media_max_retries
    /\ media.pc = "sleep" => media.file = "absent"
    /\ media.result = "DownloadError" =>
           /\ media.file = "absent"
           /\ media.attempts = media_max_retries

\* The last attempt broke off while the file was being written.
C40_Witness ==
    /\ media.result = "DownloadError"
    /\ media.met[media_max_retries] = "ChunkedEncodingError"

====
